---- MODULE Spec2Model ----
(***************************************************************************)
(* PIOS physical memory management (kern/mem.c): the page free list        *)
(* (mem_init, mem_check, mem_alloc, mem_free) and the remote-reference     *)
(* tracker (mem_rrtrack, mem_rrlookup), run by several processors.         *)
(*                                                                         *)
(* Pointers to pageinfo structs are addresses counted in units of          *)
(* sizeof(pageinfo): the descriptor of frame i lives at ArrBase + i, and   *)
(* NULL is address 0.  Of the contents of pages the state keeps which     *)
(* pages mem_check has filled with its pattern.                            *)
(***************************************************************************)
EXTENDS Integers, Sequences, FiniteSets, TLC

\* ------------------------------------------------------------------ layout
\* A scale model of the PC's physical memory map, in pages.
NULL == 0

\* PAGESIZE / sizeof(pageinfo): descriptors per page.
DescPerPage == 2

\* nvram_read16(NVRAM_BASELO)*1024 rounded down, in pages (640K on a PC).
BasememPg == 5

\* First page of the kernel image (the symbol start, at MEM_EXT).
StartPg == 6

\* Page of the kernel image's last byte (the symbol end, minus one).
EndPg == 6

\* Page of pmap_zero, a page of the kernel image.
ZeroPg == 6

\* 1024*1024*1024 / PAGESIZE: the memory size mem_init assumes.
AssumedPg == 19

\* The ballpark mem_check asserts the free-page count to exceed.
Ballpark == 3

\* ROUNDUP(end, sizeof(pageinfo)), the address mem_init's local
\* mem_pageinfo gets: the image ends with page EndPg.
ArrBase == (EndPg + 1) * DescPerPage

\* The global mem_pageinfo.  mem_init declares a local of the same name
\* and assigns that one, so the global keeps its load-time value.
mem_pageinfo == NULL

\* Every address that holds a descriptor of the array mem_init builds.
Slots == ArrBase .. (ArrBase + AssumedPg - 1)

\* &mem_pageinfo[i] inside mem_init (the local array).
LocalPi(i) == ArrBase + i

\* The frame number whose descriptor lives at address a.
FrameOf(a) == a - ArrBase

\* --------------------------------------------------------- remote refs
\* RRNODE / RRADDR / RRCONS: a remote reference holds a node number in its
\* low bits and a page address above them; NodeMod is the node field's size.
NodeMod == 4

NET_MAXNODES == 2

RRNODE(rr) == rr % NodeMod

RRADDR(rr) == rr \div NodeMod

RRCONS(node, frame) == frame * NodeMod + node

\* mem_phys2pi(addr) == &mem_pageinfo[addr / PAGESIZE], with the global.
mem_phys2pi(frame) == mem_pageinfo + frame

\* mem_ptr2pi(ptr): the same computation on a kernel virtual address.
mem_ptr2pi(pg) == mem_pageinfo + pg

\* ------------------------------------------------------------- bounds
\* Calls of mem_free the processors make in one behaviour.
MaxFree == 1

\* Calls of mem_rrtrack and mem_rrlookup the processors make.
MaxRR == 3


\* Cap of a reference count.
MaxRef == 2

\* The processors.
Cpus == {1, 2}

\* The remote references the callers pass: every node of the cluster, and
\* the page addresses whose bucket (mem_phys2pi with the global
\* mem_pageinfo) falls on a descriptor of the array.
RRArgs == {RRCONS(1, ArrBase + 2), RRCONS(2, ArrBase + 2), RRCONS(1, ArrBase + 3)}

\* References that break the protocol: node 0, a node above the cluster
\* size, and page addresses whose bucket is not above &mem_pageinfo[1] or
\* not below &mem_pageinfo[mem_npage].
RRBad == {RRCONS(0, ArrBase + 2), RRCONS(NET_MAXNODES + 1, ArrBase + 2),
          RRCONS(1, 1), RRCONS(1, AssumedPg)}

RRAll == RRArgs \cup RRBad

\* Descriptors mem_rrtrack must refuse: those of frames 0 and 1 and of the
\* zero page (which lies in the kernel image), in the array mem_init built
\* and as the conversion macros compute them from the global mem_pageinfo.
PinnedPis == {LocalPi(0), LocalPi(1), LocalPi(ZeroPg),
              mem_pageinfo + 1, mem_ptr2pi(ZeroPg)}

\* cpu_onboot(): the boot processor.
BootCpu == 1

\* Frames the processors hold at once while they use the tracker: one for
\* each processor.
MaxHeld == Cardinality(Cpus)

\* Frames held at once by callers that run before mem_init has returned.
MaxBootHeld == 1

VARIABLES
    boot,           \* "off" before mem_init ran on the boot processor
    nvram,          \* the kilobyte counts nvram_read16 returns
    mem_max,        \* size_t mem_max
    mem_npage,      \* size_t mem_npage
    mem_freelist,   \* pageinfo *mem_freelist
    refcount, free_next, home, homenext, homelist, shared,  \* pageinfo fields
    freelist_lock,  \* holder of _freelist_lock, 0 when free
    mem_freelock,   \* holder of mem_freelock, 0 when free
    pc,             \* each processor's position
    lp,             \* each processor's local pointer (p, spi, pi of the scans)
    arg_rr, arg_pi, \* the arguments of the call in progress
    owned,          \* frames each processor got from mem_alloc and has not freed
    tracked,        \* rr -> descriptor of each completed mem_rrtrack
    want,           \* per lookup in progress: tracked[rr] when it was called
    rc0,            \* per lookup in progress: want's refcount without its own increment
    dup,            \* per track in progress: its bucket held the same rr when called
    strict,         \* FALSE once a caller broke a documented precondition
    nfree, nrr,     \* calls made so far
    mc,             \* where mem_check is on the boot processor, and its locals
    mi,             \* where mem_init is on the boot processor, and its locals
    stamped,        \* pages whose first 128 bytes mem_check set to 0x97
    ld,             \* per processor: the pointer it has loaded and not stored yet
    panic           \* "" or the reason the kernel stopped

heap == <<mem_freelist, refcount, free_next, home, homenext, homelist, shared>>
\* The state of kern/mem.c.
mvars == <<boot, nvram, mem_max, mem_npage, mem_freelist, refcount,
           free_next, home, homenext,
           homelist, shared, freelist_lock, mem_freelock, pc, lp, arg_rr,
           arg_pi, owned, tracked, want, rc0, dup, strict, nfree, nrr, mc,
           mi, stamped, ld, panic>>

VARIABLES
    idt,            \* static struct gatedesc idt[256]
    idtr,           \* per processor: its IDT register has been loaded
    recover,        \* per processor: c->recover
    recoverdata,    \* per processor: c->recoverdata
    tcpu,           \* the processor that is inside trap(), 0 when none is
    tf,             \* the trap frame of the trap in progress (or of the last one)
    e100_irq,       \* extern uint8_t e100_irq, as read by the trap in progress
    curhome,        \* RRNODE(proc_cur()->home), as read by the trap in progress
    tpc,            \* position inside trap()
    tlog,           \* the calls trap() has made for this trap, in order
    tend,           \* how the last trap ended, "" while none has
    args,           \* trap_check's volatile trap_check_args args
    chk,            \* where trap_check is on the boot processor
    tpanic          \* "" or why the trap code stopped the kernel

\* The state of kern/trap.c.
tvars == <<idt, idtr, recover, recoverdata, tcpu, tf, e100_irq, curhome, tpc,
           tlog, tend, args, chk, tpanic>>

vars == <<mvars, tvars>>

\* ------------------------------------------------------------ free list
RECURSIVE Chain(_, _, _)
\* The descriptors reached from head along nxt, at most fuel of them.
Chain(head, nxt, fuel) ==
    IF head = NULL \/ fuel = 0 THEN <<>>
    ELSE <<head>> \o Chain(nxt[head], nxt, fuel - 1)

Range(s) == {s[i] : i \in 1 .. Len(s)}

FreeSeq == Chain(mem_freelist, free_next, AssumedPg + 1)

\* ROUNDUP(&mem_pageinfo[mem_npage], 4096) / 4096 with the local array.
ArrEndPg(np) == (ArrBase + np + DescPerPage - 1) \div DescPerPage

\* InitFree with the base-memory test off by one (i <= basemem/4096).
InitFreeOffByOne(i, basemem, np) == i <= basemem \/ i >= ArrEndPg(np)

\* The test of mem_init's loop body.
InitFree(i, basemem, np) == i < basemem \/ i >= ArrEndPg(np)

RECURSIVE Thread(_, _, _, _, _)
\* mem_init's loop from frame i on: h is the heap so far, tail the
\* descriptor whose free_next is *freetail (NULL: &mem_freelist).
Thread(i, np, basemem, h, tail) ==
    IF i >= np THEN
        IF tail = NULL THEN [h EXCEPT !.fl = NULL]
        ELSE [h EXCEPT !.next[tail] = NULL]
    ELSE IF InitFree(i, basemem, np) THEN
        LET h1 == [h EXCEPT !.rc[LocalPi(i)] = 0]
            h2 == IF tail = NULL THEN [h1 EXCEPT !.fl = LocalPi(i)]
                  ELSE [h1 EXCEPT !.next[tail] = LocalPi(i)]
        IN Thread(i + 1, np, basemem, h2, LocalPi(i))
    ELSE Thread(i + 1, np, basemem, h, tail)

\* memset(mem_pageinfo, 0, sizeof(pageinfo)*mem_npage) on the local array.
Zeroed(np) ==
    [fl |-> mem_freelist,
     rc |-> [a \in Slots |-> IF FrameOf(a) < np THEN 0 ELSE refcount[a]],
     next |-> [a \in Slots |-> IF FrameOf(a) < np THEN NULL ELSE free_next[a]],
     home |-> [a \in Slots |-> IF FrameOf(a) < np THEN 0 ELSE home[a]],
     hnext |-> [a \in Slots |-> IF FrameOf(a) < np THEN NULL ELSE homenext[a]],
     hlist |-> [a \in Slots |-> IF FrameOf(a) < np THEN NULL ELSE homelist[a]],
     shared |-> [a \in Slots |-> IF FrameOf(a) < np THEN 0 ELSE shared[a]],
     ret |-> NULL, ub |-> FALSE, ok |-> TRUE]

\* mem_pi2phys(pi) / PAGESIZE == pi - mem_pageinfo, with the global.
mem_pi2pg(pi) == pi - mem_pageinfo

\* PAGESIZE, and ROUNDDOWN(a, n).
PAGESIZE == 4096

ROUNDDOWN(a, n) == a - (a % n)

\* MEM_EXT, the start of extended memory, where the kernel image begins.
MEM_EXT == StartPg * PAGESIZE

\* The memory line 52 assumes (1024*1024*1024 there).
AssumedMem == AssumedPg * PAGESIZE

\* Lines 48-55: basemem and extmem from the NVRAM counts, extmem replaced
\* by the assumed memory less MEM_EXT, then mem_max.
MemSize(nv) ==
    LET basemem == ROUNDDOWN(nv.baselo * 1024, PAGESIZE)
        extmem0 == ROUNDDOWN(nv.extlo * 1024, PAGESIZE)
        extmem == AssumedMem - MEM_EXT
        max == MEM_EXT + extmem
    IN [basemem |-> basemem, extmem |-> extmem, mem_max |-> max]

\* A processor that is not inside a function of kern/mem.c.
Idle(c) == panic = "" /\ pc[c] = "idle"

\* The kernel's start-up order: the boot processor starts the other
\* processors, and the callers of the allocator and of the tracker, after
\* its own mem_init has returned.
Started == boot = "on"

\* mem_init is called once on each processor: on the boot processor
\* before anything else uses kern/mem.c.
BootOnce(c) == c = BootCpu => boot = "off"

Panic(c, why) ==
    /\ panic' = why
    /\ pc' = [pc EXCEPT ![c] = "panic"]

\* ------------------------------------- the steps inside mem_alloc, mem_free
\* A call of mem_alloc or mem_free is a sequence of steps, each of them one
\* access to the shared state; a step is taken by the processor c whose
\* call is at position at, and the call goes on at position to.  The calls
\* of the kernel's other code and the calls mem_check makes take the same
\* steps, from positions of their own.

\* Line 103: p = mem_freelist.
ReadHead(c, at, to) ==
    /\ panic = "" /\ pc[c] = at
    /\ lp' = [lp EXCEPT ![c] = mem_freelist]
    /\ pc' = [pc EXCEPT ![c] = to]
    /\ UNCHANGED <<boot, nvram, stamped, ld, mem_max, mem_npage, mi, mc,
                   heap, freelist_lock, mem_freelock, arg_rr, arg_pi,
                   owned, tracked, want, rc0, dup, strict, nfree, nrr,
                   panic>>
    /\ UNCHANGED tvars

\* Line 104 and the load of line 105: with p not null p->free_next is
\* read; with p null line 105 is passed over and the call goes on at skip.
LoadNext(c, at, to, skip) ==
    /\ panic = "" /\ pc[c] = at
    /\ IF lp[c] # NULL
       THEN /\ ld' = [ld EXCEPT ![c] = free_next[lp[c]]]
            /\ pc' = [pc EXCEPT ![c] = to]
       ELSE /\ pc' = [pc EXCEPT ![c] = skip]
            /\ UNCHANGED ld
    /\ UNCHANGED <<boot, nvram, stamped, mem_max, mem_npage, mi, mc,
                   heap, freelist_lock, mem_freelock, lp, arg_rr, arg_pi,
                   owned, tracked, want, rc0, dup, strict, nfree, nrr,
                   panic>>
    /\ UNCHANGED tvars

\* The store of line 105: mem_freelist = the pointer read.
StoreHead(c, at, to) ==
    /\ panic = "" /\ pc[c] = at
    /\ mem_freelist' = ld[c]
    /\ ld' = [ld EXCEPT ![c] = NULL]
    /\ pc' = [pc EXCEPT ![c] = to]
    /\ UNCHANGED <<boot, nvram, stamped, mem_max, mem_npage, mi, mc,
                   refcount, free_next, home, homenext, homelist, shared,
                   freelist_lock, mem_freelock, lp, arg_rr, arg_pi,
                   owned, tracked, want, rc0, dup, strict, nfree, nrr,
                   panic>>
    /\ UNCHANGED tvars

\* Line 106: p->home = 0, whether or not p is null.  Through a null
\* pointer the store faults, and the kernel stops inside mem_alloc with
\* the lock held, or it lands outside the descriptor array.
StoreHome(c, at, to) ==
    /\ panic = "" /\ pc[c] = at
    /\ IF lp[c] # NULL
       THEN /\ home' = [home EXCEPT ![lp[c]] = 0]
            /\ pc' = [pc EXCEPT ![c] = to]
            /\ UNCHANGED panic
       ELSE /\ UNCHANGED home
            /\ \/ pc' = [pc EXCEPT ![c] = to] /\ UNCHANGED panic
               \/ Panic(c, "null_deref")
    /\ UNCHANGED <<boot, nvram, stamped, ld, mem_max, mem_npage, mi, mc,
                   mem_freelist, refcount, free_next, homenext, homelist,
                   shared, freelist_lock, mem_freelock, lp, arg_rr, arg_pi,
                   owned, tracked, want, rc0, dup, strict, nfree, nrr>>
    /\ UNCHANGED tvars

\* Line 107: p->shared = 0; a null p is the address the store of line 106
\* has gone to.
StoreShared(c, at, to) ==
    /\ panic = "" /\ pc[c] = at
    /\ IF lp[c] # NULL
       THEN shared' = [shared EXCEPT ![lp[c]] = 0]
       ELSE UNCHANGED shared
    /\ pc' = [pc EXCEPT ![c] = to]
    /\ UNCHANGED <<boot, nvram, stamped, ld, mem_max, mem_npage, mi, mc,
                   mem_freelist, refcount, free_next, home, homenext,
                   homelist, freelist_lock, mem_freelock, lp, arg_rr,
                   arg_pi, owned, tracked, want, rc0, dup, strict, nfree,
                   nrr, panic>>
    /\ UNCHANGED tvars

\* Line 108: spinlock_release(&_freelist_lock).
Unlock(c, at, to) ==
    /\ panic = "" /\ pc[c] = at
    /\ freelist_lock' = 0
    /\ pc' = [pc EXCEPT ![c] = to]
    /\ UNCHANGED <<boot, nvram, stamped, ld, mem_max, mem_npage, mi, mc,
                   heap, mem_freelock, lp, arg_rr, arg_pi, owned, tracked,
                   want, rc0, dup, strict, nfree, nrr, panic>>
    /\ UNCHANGED tvars

\* The load of line 120: mem_freelist is read.
LoadHead(c, at, to) ==
    /\ panic = "" /\ pc[c] = at
    /\ ld' = [ld EXCEPT ![c] = mem_freelist]
    /\ pc' = [pc EXCEPT ![c] = to]
    /\ UNCHANGED <<boot, nvram, stamped, mem_max, mem_npage, mi, mc,
                   heap, freelist_lock, mem_freelock, lp, arg_rr, arg_pi,
                   owned, tracked, want, rc0, dup, strict, nfree, nrr,
                   panic>>
    /\ UNCHANGED tvars

\* StoreNext that leaves pi->free_next as it is.
StoreNextNoLink(c, at, to) ==
    /\ panic = "" /\ pc[c] = at
    /\ ld' = [ld EXCEPT ![c] = NULL]
    /\ pc' = [pc EXCEPT ![c] = to]
    /\ UNCHANGED <<boot, nvram, stamped, mem_max, mem_npage, mi, mc,
                   heap, freelist_lock, mem_freelock, lp, arg_rr, arg_pi,
                   owned, tracked, want, rc0, dup, strict, nfree, nrr,
                   panic>>
    /\ UNCHANGED tvars

\* The store of line 120: pi->free_next = the pointer read.
StoreNext(c, at, to) ==
    /\ panic = "" /\ pc[c] = at
    /\ free_next' = [free_next EXCEPT ![arg_pi[c]] = ld[c]]
    /\ ld' = [ld EXCEPT ![c] = NULL]
    /\ pc' = [pc EXCEPT ![c] = to]
    /\ UNCHANGED <<boot, nvram, stamped, mem_max, mem_npage, mi, mc,
                   mem_freelist, refcount, home, homenext, homelist, shared,
                   freelist_lock, mem_freelock, lp, arg_rr, arg_pi,
                   owned, tracked, want, rc0, dup, strict, nfree, nrr,
                   panic>>
    /\ UNCHANGED tvars

\* Line 121: mem_freelist = pi.
LinkHead(c, at, to) ==
    /\ panic = "" /\ pc[c] = at
    /\ mem_freelist' = arg_pi[c]
    /\ pc' = [pc EXCEPT ![c] = to]
    /\ UNCHANGED <<boot, nvram, stamped, ld, mem_max, mem_npage, mi, mc,
                   refcount, free_next, home, homenext, homelist, shared,
                   freelist_lock, mem_freelock, lp, arg_rr, arg_pi,
                   owned, tracked, want, rc0, dup, strict, nfree, nrr,
                   panic>>
    /\ UNCHANGED tvars

\* mem_check is not running.
NoMemCheck ==
    [line |-> 0, pp |-> NULL, freepages |-> 0,
     pp0 |-> NULL, pp1 |-> NULL, pp2 |-> NULL, fl |-> NULL]

\* mem_init is not running.
NoMemInit == [line |-> 0, i |-> 0, freetail |-> NULL]

\* mem_init without the cpu_onboot() test: every processor that calls it
\* sizes the memory and goes on to build the array.
mem_initEveryCpu(c) ==
    /\ Idle(c)
    /\ mem_max' = MemSize(nvram).mem_max
    /\ pc' = [pc EXCEPT ![c] = "I_run"]
    /\ mi' = [NoMemInit EXCEPT !.line = 58]
    /\ UNCHANGED <<boot, nvram, stamped, ld, mem_npage, mc, heap, freelist_lock,
                   mem_freelock, lp, arg_rr, arg_pi, owned, tracked, want,
                   rc0, dup, strict, nfree, nrr, panic>>
    /\ UNCHANGED tvars

\* mem_init on processor c, lines 36-55: a processor other than the boot
\* processor returns at once; the boot processor reads the NVRAM and
\* stores mem_max.
mem_init(c) ==
    /\ Idle(c)
    /\ IF c # BootCpu
       THEN UNCHANGED vars
       ELSE /\ mem_max' = MemSize(nvram).mem_max
            /\ pc' = [pc EXCEPT ![c] = "I_run"]
            /\ mi' = [NoMemInit EXCEPT !.line = 58]
            /\ UNCHANGED <<boot, nvram, stamped, ld, mem_npage, mc, heap, freelist_lock,
                           mem_freelock, lp, arg_rr, arg_pi, owned, tracked,
                           want, rc0, dup, strict, nfree, nrr, panic>>
    /\ UNCHANGED tvars

\* The rest of mem_init runs on the boot processor, one store to the
\* shared state at a time; mi.line is the line of kern/mem.c it is to
\* execute next, mi.i its loop index and mi.freetail the descriptor whose
\* free_next is *freetail (NULL: freetail is &mem_freelist).  None of
\* lines 64-82 holds a lock.
InInit(c, line) ==
    /\ panic = "" /\ c = BootCpu /\ pc[c] = "I_run"
    /\ mi.line = line

\* basemem/4096 of line 73.
BasememPages == MemSize(nvram).basemem \div PAGESIZE

\* Line 58: mem_npage = mem_max / PAGESIZE.
MemInitNpage(c) ==
    /\ InInit(c, 58)
    /\ mem_npage' = mem_max \div PAGESIZE
    /\ mi' = [mi EXCEPT !.line = 64]
    /\ UNCHANGED <<boot, nvram, stamped, ld, mem_max, mc, heap, freelist_lock,
                   mem_freelock, pc, lp, arg_rr, arg_pi, owned, tracked,
                   want, rc0, dup, strict, nfree, nrr, panic>>
    /\ UNCHANGED tvars

\* Line 64: spinlock_init(&_freelist_lock) stores the unlocked state,
\* whoever holds the lock.
MemInitLock(c) ==
    /\ InInit(c, 64)
    /\ freelist_lock' = 0
    /\ mi' = [mi EXCEPT !.line = 66, !.i = 0]
    /\ UNCHANGED <<boot, nvram, stamped, ld, mem_max, mem_npage, mc, heap,
                   mem_freelock, pc, lp, arg_rr, arg_pi, owned, tracked,
                   want, rc0, dup, strict, nfree, nrr, panic>>
    /\ UNCHANGED tvars

\* Lines 65-66: the memset of the local array, one descriptor at a step;
\* after the last, lines 67-70: freetail = &mem_freelist, i = 2.
MemInitClear(c) ==
    /\ InInit(c, 66)
    /\ IF mi.i < mem_npage
       THEN LET a == LocalPi(mi.i) IN
            /\ refcount' = [refcount EXCEPT ![a] = 0]
            /\ free_next' = [free_next EXCEPT ![a] = NULL]
            /\ home' = [home EXCEPT ![a] = 0]
            /\ homenext' = [homenext EXCEPT ![a] = NULL]
            /\ homelist' = [homelist EXCEPT ![a] = NULL]
            /\ shared' = [shared EXCEPT ![a] = 0]
            /\ mi' = [mi EXCEPT !.i = @ + 1]
       ELSE /\ mi' = [line |-> 70, i |-> 2, freetail |-> NULL]
            /\ UNCHANGED <<refcount, free_next, home, homenext, homelist,
                           shared>>
    /\ UNCHANGED <<boot, nvram, stamped, ld, mem_max, mem_npage, mc, mem_freelist,
                   freelist_lock, mem_freelock, pc, lp, arg_rr, arg_pi,
                   owned, tracked, want, rc0, dup, strict, nfree, nrr,
                   panic>>
    /\ UNCHANGED tvars

\* Lines 70-74: the loop test and the test of the loop body; a frame that
\* is not free is passed over.
MemInitLoop(c) ==
    /\ InInit(c, 70)
    /\ mi' = IF mi.i >= mem_npage THEN [mi EXCEPT !.line = 82]
             ELSE IF InitFree(mi.i, BasememPages, mem_npage)
                  THEN [mi EXCEPT !.line = 76]
                  ELSE [mi EXCEPT !.i = @ + 1]
    /\ UNCHANGED <<boot, nvram, stamped, ld, mem_max, mem_npage, mc, heap,
                   freelist_lock, mem_freelock, pc, lp, arg_rr, arg_pi,
                   owned, tracked, want, rc0, dup, strict, nfree, nrr,
                   panic>>
    /\ UNCHANGED tvars

\* Line 76: mem_pageinfo[i].refcount = 0.
MemInitRefcount(c) ==
    /\ InInit(c, 76)
    /\ refcount' = [refcount EXCEPT ![LocalPi(mi.i)] = 0]
    /\ mi' = [mi EXCEPT !.line = 78]
    /\ UNCHANGED <<boot, nvram, stamped, ld, mem_max, mem_npage, mc, mem_freelist,
                   free_next, home, homenext, homelist, shared,
                   freelist_lock, mem_freelock, pc, lp, arg_rr, arg_pi,
                   owned, tracked, want, rc0, dup, strict, nfree, nrr,
                   panic>>
    /\ UNCHANGED tvars

\* Lines 78-79 and the i++ of line 70: *freetail = &mem_pageinfo[i],
\* freetail = &mem_pageinfo[i].free_next.
MemInitLink(c) ==
    /\ InInit(c, 78)
    /\ IF mi.freetail = NULL
       THEN /\ mem_freelist' = LocalPi(mi.i)
            /\ UNCHANGED free_next
       ELSE /\ free_next' = [free_next EXCEPT ![mi.freetail] = LocalPi(mi.i)]
            /\ UNCHANGED mem_freelist
    /\ mi' = [line |-> 70, i |-> mi.i + 1, freetail |-> LocalPi(mi.i)]
    /\ UNCHANGED <<boot, nvram, stamped, ld, mem_max, mem_npage, mc, refcount, home,
                   homenext, homelist, shared, freelist_lock, mem_freelock,
                   pc, lp, arg_rr, arg_pi, owned, tracked, want, rc0, dup,
                   strict, nfree, nrr, panic>>
    /\ UNCHANGED tvars

\* Lines 82-84: *freetail = NULL, and the call of mem_check.
MemInitTerminate(c) ==
    /\ InInit(c, 82)
    /\ IF mi.freetail = NULL
       THEN /\ mem_freelist' = NULL
            /\ UNCHANGED free_next
       ELSE /\ free_next' = [free_next EXCEPT ![mi.freetail] = NULL]
            /\ UNCHANGED mem_freelist
    /\ mi' = [mi EXCEPT !.line = 84]
    /\ mc' = [NoMemCheck EXCEPT !.line = 210]
    /\ pc' = [pc EXCEPT ![c] = "C_run"]
    /\ UNCHANGED <<boot, nvram, stamped, ld, mem_max, mem_npage, refcount, home,
                   homenext, homelist, shared, freelist_lock, mem_freelock,
                   lp, arg_rr, arg_pi, owned, tracked, want, rc0, dup,
                   strict, nfree, nrr, panic>>
    /\ UNCHANGED tvars

\* The steps of mem_init after its entry.
mem_init_body(c) ==
    \/ MemInitNpage(c)
    \/ MemInitLock(c)
    \/ MemInitClear(c)
    \/ MemInitLoop(c)
    \/ MemInitRefcount(c)
    \/ MemInitLink(c)
    \/ MemInitTerminate(c)

\* ------------------------------------------------------------ mem_check
\* mem_check runs on the boot processor, called by mem_init (line 84); mc.line is
\* the line of kern/mem.c it is to execute next.  Its calls of mem_alloc
\* and mem_free take and release _freelist_lock like any other call, and
\* between them it reads and writes mem_freelist without the lock.
InCheck(c, lines) ==
    /\ panic = "" /\ c = BootCpu /\ pc[c] = "C_run"
    /\ mc.line \in lines

\* The lines of mem_check that call mem_alloc, and those that call mem_free.
AllocLines == {221, 222, 223, 237, 244, 245, 246, 250}

FreeLines == {240, 241, 242, 256, 257, 258}

\* The line mem_check goes on with after the call of line l has returned.
AfterCall(l) ==
    CASE l = 223 -> 225
      [] l = 237 -> 240
      [] l = 242 -> 244
      [] l = 246 -> 247
      [] l = 250 -> 253
      [] l = 258 -> 260
      [] OTHER -> l + 1

\* The argument of the mem_free of line l.
FreeArg(l) ==
    CASE l \in {240, 256} -> mc.pp0
      [] l \in {241, 257} -> mc.pp1
      [] OTHER -> mc.pp2

\* Lines 210-211: freepages = 0, pp = mem_freelist, read without the lock.
MemCheckFirst(c) ==
    /\ InCheck(c, {210})
    /\ mc' = [mc EXCEPT !.line = 211, !.pp = mem_freelist, !.freepages = 0]
    /\ UNCHANGED <<boot, nvram, stamped, ld, mem_max, mem_npage, mi, heap,
                   freelist_lock, mem_freelock, pc, lp, arg_rr, arg_pi,
                   owned, tracked, want, rc0, dup, strict, nfree, nrr,
                   panic>>
    /\ UNCHANGED tvars

\* Lines 211-214, one pass of the loop: while pp is not null, the memset
\* of the first 128 bytes of the page mem_pi2ptr(pp) names, freepages++,
\* and pp = pp->free_next, read without the lock.
MemCheckWalk(c) ==
    /\ InCheck(c, {211})
    /\ IF mc.pp # NULL
       THEN /\ stamped' = stamped \cup {mem_pi2pg(mc.pp)}
            /\ mc' = [mc EXCEPT !.pp = free_next[mc.pp],
                                !.freepages = @ + 1]
       ELSE /\ mc' = [mc EXCEPT !.line = 216]
            /\ UNCHANGED stamped
    /\ UNCHANGED <<boot, nvram, ld, mem_max, mem_npage, mi, heap,
                   freelist_lock, mem_freelock, pc, lp, arg_rr, arg_pi,
                   owned, tracked, want, rc0, dup, strict, nfree, nrr,
                   panic>>
    /\ UNCHANGED tvars

\* Lines 216-217: the count is asserted below mem_npage and above the
\* ballpark.
MemCheckCount(c) ==
    /\ InCheck(c, {216})
    /\ IF mc.freepages < mem_npage /\ mc.freepages > Ballpark
       THEN /\ mc' = [mc EXCEPT !.line = 221]
            /\ UNCHANGED <<pc, panic>>
       ELSE /\ Panic(c, "mem_check")
            /\ UNCHANGED mc
    /\ UNCHANGED <<boot, nvram, stamped, ld, mem_max, mem_npage, mi, heap,
                   freelist_lock, mem_freelock, lp, arg_rr, arg_pi, owned,
                   tracked, want, rc0, dup, strict, nfree, nrr>>
    /\ UNCHANGED tvars

\* A call of mem_alloc by mem_check, lines 101-102: the lock is taken.
MemCheckAllocAcquire(c) ==
    /\ InCheck(c, AllocLines)
    /\ freelist_lock = 0
    /\ freelist_lock' = c
    /\ pc' = [pc EXCEPT ![c] = "C_head"]
    /\ UNCHANGED <<boot, nvram, stamped, ld, mem_max, mem_npage, mi, mc,
                   heap, mem_freelock, lp, arg_rr, arg_pi,
                   owned, tracked, want, rc0, dup, strict, nfree, nrr, panic>>
    /\ UNCHANGED tvars

\* The steps of that mem_alloc, lines 103-108.
MemCheckAllocHead(c) == c = BootCpu /\ ReadHead(c, "C_head", "C_unlink")

MemCheckAllocNext(c) ==
    c = BootCpu /\ LoadNext(c, "C_unlink", "C_store", "C_home")

MemCheckAllocUnlink(c) == c = BootCpu /\ StoreHead(c, "C_store", "C_home")

MemCheckAllocHome(c) == c = BootCpu /\ StoreHome(c, "C_home", "C_shared")

MemCheckAllocShared(c) == c = BootCpu /\ StoreShared(c, "C_shared", "C_rel")

MemCheckAllocRelease(c) == c = BootCpu /\ Unlock(c, "C_rel", "C_ret")

\* What mem_check does with the value p its mem_alloc of line mc.line
\* returned: lines 221-223 and 244-246 keep it and assert it non-null,
\* lines 237 and 250 assert it null.
MemCheckReturned(c, p) ==
    LET l == mc.line
        good == IF l \in {237, 250} THEN p = NULL ELSE p # NULL
        kept == CASE l \in {221, 244} -> [mc EXCEPT !.pp0 = p]
                  [] l \in {222, 245} -> [mc EXCEPT !.pp1 = p]
                  [] l \in {223, 246} -> [mc EXCEPT !.pp2 = p]
                  [] OTHER -> mc
    IN IF good
       THEN /\ mc' = [kept EXCEPT !.line = AfterCall(l)]
            /\ pc' = [pc EXCEPT ![c] = "C_run"]
            /\ UNCHANGED panic
       ELSE /\ mc' = kept
            /\ Panic(c, "mem_check")

\* Line 109 of that mem_alloc, return p, and the assertion of mem_check on
\* the value returned; the lock has been released.
MemCheckAllocReturn(c) ==
    /\ panic = "" /\ c = BootCpu /\ pc[c] = "C_ret"
    /\ MemCheckReturned(c, lp[c])
    /\ lp' = [lp EXCEPT ![c] = NULL]
    /\ UNCHANGED <<boot, nvram, stamped, ld, mem_max, mem_npage, mi,
                   heap, freelist_lock, mem_freelock, arg_rr, arg_pi,
                   owned, tracked, want, rc0, dup, strict, nfree, nrr>>
    /\ UNCHANGED tvars

\* Lines 225-230: the three descriptors differ and mem_pi2phys of each is
\* below mem_npage*PAGESIZE.
MemCheckDistinct(c) ==
    /\ InCheck(c, {225})
    /\ IF /\ mc.pp0 # NULL
          /\ mc.pp1 # NULL /\ mc.pp1 # mc.pp0
          /\ mc.pp2 # NULL /\ mc.pp2 # mc.pp1 /\ mc.pp2 # mc.pp0
          /\ mem_pi2pg(mc.pp0) < mem_npage
          /\ mem_pi2pg(mc.pp1) < mem_npage
          /\ mem_pi2pg(mc.pp2) < mem_npage
       THEN /\ mc' = [mc EXCEPT !.line = 233]
            /\ UNCHANGED <<pc, panic>>
       ELSE /\ Panic(c, "mem_check")
            /\ UNCHANGED mc
    /\ UNCHANGED <<boot, nvram, stamped, ld, mem_max, mem_npage, mi, heap, freelist_lock,
                   mem_freelock, lp, arg_rr, arg_pi, owned, tracked, want,
                   rc0, dup, strict, nfree, nrr>>
    /\ UNCHANGED tvars

\* Line 233: fl = mem_freelist, without the lock.
MemCheckSave(c) ==
    /\ InCheck(c, {233})
    /\ mc' = [mc EXCEPT !.fl = mem_freelist, !.line = 234]
    /\ UNCHANGED <<boot, nvram, stamped, ld, mem_max, mem_npage, mi, heap, freelist_lock,
                   mem_freelock, pc, lp, arg_rr, arg_pi, owned, tracked,
                   want, rc0, dup, strict, nfree, nrr, panic>>
    /\ UNCHANGED tvars

\* Line 234: mem_freelist = 0, without the lock.
MemCheckSteal(c) ==
    /\ InCheck(c, {234})
    /\ mem_freelist' = NULL
    /\ mc' = [mc EXCEPT !.line = 237]
    /\ UNCHANGED <<boot, nvram, stamped, ld, mem_max, mem_npage, mi, refcount, free_next,
                   home, homenext, homelist, shared, freelist_lock,
                   mem_freelock, pc, lp, arg_rr, arg_pi, owned, tracked,
                   want, rc0, dup, strict, nfree, nrr, panic>>
    /\ UNCHANGED tvars

\* A call of mem_free by mem_check, line 119: the lock is taken.
MemCheckFreeAcquire(c) ==
    /\ InCheck(c, FreeLines)
    /\ freelist_lock = 0
    /\ freelist_lock' = c
    /\ arg_pi' = [arg_pi EXCEPT ![c] = FreeArg(mc.line)]
    /\ pc' = [pc EXCEPT ![c] = "C_load"]
    /\ UNCHANGED <<boot, nvram, stamped, ld, mem_max, mem_npage, mi, mc,
                   heap, mem_freelock, lp, arg_rr, owned,
                   tracked, want, rc0, dup, strict, nfree, nrr, panic>>
    /\ UNCHANGED tvars

\* The steps of that mem_free, lines 120-121.
MemCheckFreeLoad(c) == c = BootCpu /\ LoadHead(c, "C_load", "C_next")

\* MemCheckFreeNext that leaves pi->free_next as it is.
MemCheckFreeNextNoLink(c) ==
    c = BootCpu /\ StoreNextNoLink(c, "C_next", "C_link")

MemCheckFreeNext(c) == c = BootCpu /\ StoreNext(c, "C_next", "C_link")

MemCheckFreeLink(c) == c = BootCpu /\ LinkHead(c, "C_link", "C_frel")

\* Line 122 of that mem_free, the release, and its return; after the free
\* of line 242, line 243 clears pp0, pp1 and pp2.
MemCheckFreeRelease(c) ==
    /\ panic = "" /\ c = BootCpu /\ pc[c] = "C_frel"
    /\ freelist_lock' = 0
    /\ arg_pi' = [arg_pi EXCEPT ![c] = NULL]
    /\ pc' = [pc EXCEPT ![c] = "C_run"]
    /\ mc' = IF mc.line = 242
             THEN [mc EXCEPT !.pp0 = NULL, !.pp1 = NULL, !.pp2 = NULL,
                             !.line = AfterCall(242)]
             ELSE [mc EXCEPT !.line = AfterCall(mc.line)]
    /\ UNCHANGED <<boot, nvram, stamped, ld, mem_max, mem_npage, mi,
                   heap, mem_freelock, lp, arg_rr, owned,
                   tracked, want, rc0, dup, strict, nfree, nrr, panic>>
    /\ UNCHANGED tvars

\* Lines 247-249: the three descriptors allocated again differ.
MemCheckDistinctAgain(c) ==
    /\ InCheck(c, {247})
    /\ IF /\ mc.pp0 # NULL
          /\ mc.pp1 # NULL /\ mc.pp1 # mc.pp0
          /\ mc.pp2 # NULL /\ mc.pp2 # mc.pp1 /\ mc.pp2 # mc.pp0
       THEN /\ mc' = [mc EXCEPT !.line = 250]
            /\ UNCHANGED <<pc, panic>>
       ELSE /\ Panic(c, "mem_check")
            /\ UNCHANGED mc
    /\ UNCHANGED <<boot, nvram, stamped, ld, mem_max, mem_npage, mi, heap, freelist_lock,
                   mem_freelock, lp, arg_rr, arg_pi, owned, tracked, want,
                   rc0, dup, strict, nfree, nrr>>
    /\ UNCHANGED tvars

\* Line 253: mem_freelist = fl, without the lock.
MemCheckGiveBack(c) ==
    /\ InCheck(c, {253})
    /\ mem_freelist' = mc.fl
    /\ mc' = [mc EXCEPT !.line = 256]
    /\ UNCHANGED <<boot, nvram, stamped, ld, mem_max, mem_npage, mi, refcount, free_next,
                   home, homenext, homelist, shared, freelist_lock,
                   mem_freelock, pc, lp, arg_rr, arg_pi, owned, tracked,
                   want, rc0, dup, strict, nfree, nrr, panic>>
    /\ UNCHANGED tvars

\* Lines 260-261 and 85: mem_check returns, and mem_init with it.
MemCheckReturn(c) ==
    /\ InCheck(c, {260})
    /\ boot' = "on"
    /\ mc' = NoMemCheck
    /\ mi' = NoMemInit
    /\ pc' = [pc EXCEPT ![c] = "idle"]
    /\ UNCHANGED <<nvram, stamped, ld, mem_max, mem_npage, heap, freelist_lock,
                   mem_freelock, lp, arg_rr, arg_pi, owned, tracked, want,
                   rc0, dup, strict, nfree, nrr, panic>>
    /\ UNCHANGED tvars

\* mem_check, one step at a time.
mem_check(c) ==
    \/ MemCheckFirst(c)
    \/ MemCheckWalk(c)
    \/ MemCheckCount(c)
    \/ MemCheckAllocAcquire(c)
    \/ MemCheckAllocHead(c)
    \/ MemCheckAllocNext(c)
    \/ MemCheckAllocUnlink(c)
    \/ MemCheckAllocHome(c)
    \/ MemCheckAllocShared(c)
    \/ MemCheckAllocRelease(c)
    \/ MemCheckAllocReturn(c)
    \/ MemCheckDistinct(c)
    \/ MemCheckSave(c)
    \/ MemCheckSteal(c)
    \/ MemCheckFreeAcquire(c)
    \/ MemCheckFreeLoad(c)
    \/ MemCheckFreeNext(c)
    \/ MemCheckFreeLink(c)
    \/ MemCheckFreeRelease(c)
    \/ MemCheckDistinctAgain(c)
    \/ MemCheckGiveBack(c)
    \/ MemCheckReturn(c)

\* The entries of idt[]: vectors 0..255.
Vectors == 0 .. 255

\* A gate of the zero-initialised static idt[]: not present.
NoGate == [off |-> "", dpl |-> 0, p |-> FALSE]

\* No trap frame yet; a trap number no trap has.
NoTrapno == 0 - 1

NoFrame == [trapno |-> NoTrapno, cs |-> 0, eip |-> ""]

\* A word that is not the address of one of trap_check's labels.
Junk == ""

\* The stack slot of trap_check's local args before any trap_check has
\* written to it: no label and no trap number.
NoArgs == [reip |-> Junk, trapno |-> NoTrapno]

\* trap_check is not running.
NoCheck == [k |-> 0, stage |-> "", cs |-> 0]

\* The NVRAM of the machine the other specifications boot: base memory up
\* to the I/O hole, and an extended-memory count.
NvramBoot == [baselo |-> (BasememPg * PAGESIZE) \div 1024,
              extlo |-> (AssumedMem - MEM_EXT) \div 1024]

\* Everything but the NVRAM: the globals are zero, the memory the array
\* will occupy holds whatever was there.
InitState ==
    /\ boot = "off"
    /\ mem_max = 0
    /\ mem_npage = 0
    /\ mem_freelist = NULL
    /\ refcount = [a \in Slots |-> 1]
    /\ free_next = [a \in Slots |-> ArrBase]
    /\ home = [a \in Slots |-> 1]
    /\ homenext = [a \in Slots |-> ArrBase]
    /\ homelist = [a \in Slots |-> ArrBase]
    /\ shared = [a \in Slots |-> 1]
    /\ freelist_lock = 0
    /\ mem_freelock = 0
    /\ pc = [c \in Cpus |-> "idle"]
    /\ lp = [c \in Cpus |-> NULL]
    /\ arg_rr = [c \in Cpus |-> 0]
    /\ arg_pi = [c \in Cpus |-> NULL]
    /\ owned = [c \in Cpus |-> {}]
    /\ tracked = [r \in RRAll |-> NULL]
    /\ want = [c \in Cpus |-> NULL]
    /\ rc0 = [c \in Cpus |-> 0]
    /\ dup = [c \in Cpus |-> FALSE]
    /\ strict = TRUE
    /\ nfree = 0
    /\ nrr = 0
    /\ mc = NoMemCheck
    /\ mi = NoMemInit
    /\ stamped = {}
    /\ ld = [c \in Cpus |-> NULL]
    /\ panic = ""
    /\ idt = [v \in Vectors |-> NoGate]
    /\ idtr = [c \in Cpus |-> FALSE]
    /\ recover = [c \in Cpus |-> "NULL"]
    /\ recoverdata = [c \in Cpus |-> "NULL"]
    /\ tcpu = 0
    /\ tf = NoFrame
    /\ e100_irq = 0
    /\ curhome = 0
    /\ tpc = "run"
    /\ tlog = <<>>
    /\ tend = ""
    /\ args = NoArgs
    /\ chk = NoCheck
    /\ tpanic = ""

Init == InitState /\ nvram = NvramBoot

\* The largest extended-memory count (in kilobytes) the NVRAM may hold.
MaxExtKB == 100

\* The NVRAM contents mem_init may find: a base-memory count that puts
\* the I/O hole where the layout has it, and an extended-memory count that
\* at least holds the kernel image and the descriptor array.
NvramValues ==
    [baselo : ((BasememPg * PAGESIZE) \div 1024) ..
              (((BasememPg + 1) * PAGESIZE) \div 1024 - 1),
     extlo : (((ArrEndPg(AssumedPg) - StartPg) * PAGESIZE) \div 1024) .. MaxExtKB]

\* mem_init on a machine of any such memory size.
InitSize == InitState /\ nvram \in NvramValues

\* AllocAcquire without waiting for _freelist_lock.
AllocAcquireNoLock(c) ==
    /\ Idle(c)
    /\ freelist_lock' = c
    /\ pc' = [pc EXCEPT ![c] = "A_head"]
    /\ UNCHANGED <<boot, nvram, stamped, ld, mem_max, mem_npage, mi, mc,
                   heap, mem_freelock, lp, arg_rr, arg_pi,
                   owned, tracked, want, rc0, dup, strict, nfree, nrr, panic>>
    /\ UNCHANGED tvars

\* ------------------------------------------------------------ mem_alloc
\* Lines 101-102: the lock is taken (the if of line 101 has an empty
\* body).
AllocAcquire(c) ==
    /\ Idle(c)
    /\ freelist_lock = 0
    /\ freelist_lock' = c
    /\ pc' = [pc EXCEPT ![c] = "A_head"]
    /\ UNCHANGED <<boot, nvram, stamped, ld, mem_max, mem_npage, mi, mc,
                   heap, mem_freelock, lp, arg_rr, arg_pi,
                   owned, tracked, want, rc0, dup, strict, nfree, nrr, panic>>
    /\ UNCHANGED tvars

\* Line 103.
AllocHead(c) == ReadHead(c, "A_head", "A_unlink")

\* Line 104 and the load of line 105.
AllocNext(c) == LoadNext(c, "A_unlink", "A_store", "A_home")

\* AllocUnlink that leaves the head on the free list.
AllocUnlinkKeepsHead(c) ==
    /\ panic = "" /\ pc[c] = "A_store"
    /\ ld' = [ld EXCEPT ![c] = NULL]
    /\ pc' = [pc EXCEPT ![c] = "A_home"]
    /\ UNCHANGED <<boot, nvram, stamped, mem_max, mem_npage, mi, mc,
                   heap, freelist_lock, mem_freelock, lp, arg_rr, arg_pi,
                   owned, tracked, want, rc0, dup, strict, nfree, nrr,
                   panic>>
    /\ UNCHANGED tvars

\* The store of line 105: the head is taken off the free list.
AllocUnlink(c) == StoreHead(c, "A_store", "A_home")

\* Lines 106 and 107: p->home = 0 and p->shared = 0, outside the if of
\* line 104.
AllocHome(c) == StoreHome(c, "A_home", "A_shared")

AllocShared(c) == StoreShared(c, "A_shared", "A_rel")

\* Line 108.
AllocRelease(c) == Unlock(c, "A_rel", "A_ret")

\* Line 109: return p; the caller now owns the frame.
AllocReturn(c) ==
    /\ panic = "" /\ pc[c] = "A_ret"
    /\ owned' = [owned EXCEPT ![c] = IF lp[c] # NULL THEN @ \cup {lp[c]}
                                                     ELSE @]
    /\ lp' = [lp EXCEPT ![c] = NULL]
    /\ pc' = [pc EXCEPT ![c] = "idle"]
    /\ UNCHANGED <<boot, nvram, stamped, ld, mem_max, mem_npage, mi, mc,
                   heap, freelist_lock, mem_freelock, arg_rr, arg_pi,
                   tracked, want, rc0, dup, strict, nfree, nrr, panic>>
    /\ UNCHANGED tvars

\* The steps of mem_alloc after its entry.
mem_alloc_body(c) ==
    \/ AllocHead(c)
    \/ AllocNext(c)
    \/ AllocUnlink(c)
    \/ AllocHome(c)
    \/ AllocShared(c)
    \/ AllocRelease(c)
    \/ AllocReturn(c)

\* The processors inside mem_alloc, and the frames they have taken off
\* the free list and not returned to their callers yet.
InAlloc == {c \in Cpus : pc[c] \in {"A_head", "A_unlink", "A_store", "A_home",
                                   "A_shared", "A_rel", "A_ret"}}

Taken == {lp[c] : c \in {d \in Cpus : pc[d] \in {"A_home", "A_shared",
                                                 "A_rel", "A_ret"}}}
            \ {NULL}

\* ------------------------------------------------------------- home lists
HomeChain(hpi) == Chain(homelist[hpi], homenext, AssumedPg + 1)

\* The descriptors reachable from some home bucket.
InBuckets == UNION {Range(HomeChain(b)) : b \in Slots}

\* ------------------------------------------------------------- mem_free
\* Line 119: the lock is taken.
FreeAcquire(c, pi) ==
    /\ Idle(c)
    /\ freelist_lock = 0
    /\ freelist_lock' = c
    /\ arg_pi' = [arg_pi EXCEPT ![c] = pi]
    /\ owned' = [owned EXCEPT ![c] = @ \ {pi}]
    /\ strict' = (/\ strict /\ pi \in owned[c]
                  /\ refcount[pi] = 0 /\ pi \notin InBuckets)
    /\ nfree' = nfree + 1
    /\ pc' = [pc EXCEPT ![c] = "F_load"]
    /\ UNCHANGED <<boot, nvram, stamped, ld, mem_max, mem_npage, mi, mc,
                   heap, mem_freelock, lp, arg_rr, tracked,
                   want, rc0, dup, nrr, panic>>
    /\ UNCHANGED tvars

\* Line 120: pi->free_next = mem_freelist, the load and the store.
FreeLoad(c) == LoadHead(c, "F_load", "F_next")

\* FreeNext that stores NULL in pi->free_next instead of the head read.
FreeNextDropList(c) ==
    /\ panic = "" /\ pc[c] = "F_next"
    /\ free_next' = [free_next EXCEPT ![arg_pi[c]] = NULL]
    /\ ld' = [ld EXCEPT ![c] = NULL]
    /\ pc' = [pc EXCEPT ![c] = "F_link"]
    /\ UNCHANGED <<boot, nvram, stamped, mem_max, mem_npage, mi, mc,
                   mem_freelist, refcount, home, homenext, homelist, shared,
                   freelist_lock, mem_freelock, lp, arg_rr, arg_pi,
                   owned, tracked, want, rc0, dup, strict, nfree, nrr,
                   panic>>
    /\ UNCHANGED tvars

FreeNext(c) == StoreNext(c, "F_next", "F_link")

\* Line 121.
FreeLink(c) == LinkHead(c, "F_link", "F_rel")

\* Line 122: the release, and the return.
FreeRelease(c) ==
    /\ panic = "" /\ pc[c] = "F_rel"
    /\ freelist_lock' = 0
    /\ arg_pi' = [arg_pi EXCEPT ![c] = NULL]
    /\ pc' = [pc EXCEPT ![c] = "idle"]
    /\ UNCHANGED <<boot, nvram, stamped, ld, mem_max, mem_npage, mi, mc,
                   heap, mem_freelock, lp, arg_rr, owned,
                   tracked, want, rc0, dup, strict, nfree, nrr, panic>>
    /\ UNCHANGED tvars

\* The steps of mem_free after its entry.
mem_free_body(c) ==
    \/ FreeLoad(c)
    \/ FreeNext(c)
    \/ FreeLink(c)
    \/ FreeRelease(c)

\* ----------------------------------------------------------- mem_rrtrack
\* mem_incref(pi): one more reference.
mem_incref(rc, pi) == [rc EXCEPT ![pi] = @ + 1]

\* The assertion of lines 130, 148 and 179: a pointer above &mem_pageinfo[1]
\* and below &mem_pageinfo[mem_npage], with the global mem_pageinfo.
InArray(pi) == pi > mem_pageinfo + 1 /\ pi < mem_pageinfo + mem_npage

\* The assertions of lines 131-132: not the zero page, not the kernel image.
NotPinned(pi) ==
    /\ pi # mem_ptr2pi(ZeroPg)
    /\ (pi < mem_ptr2pi(StartPg) \/ pi > mem_ptr2pi(EndPg))

NodeOk(rr) == RRNODE(rr) > 0 /\ RRNODE(rr) <= NET_MAXNODES

\* hpi of the call in progress on processor c.
Hpi(c) == mem_phys2pi(RRADDR(arg_rr[c]))

\* TrackEnter that skips the scan of the bucket.
TrackEnterNoScan(c, rr, pi) ==
    /\ Idle(c)
    /\ nrr < MaxRR
    /\ nrr' = nrr + 1
    /\ arg_rr' = [arg_rr EXCEPT ![c] = rr]
    /\ arg_pi' = [arg_pi EXCEPT ![c] = pi]
    /\ InArray(pi) /\ NotPinned(pi)
    /\ NodeOk(rr) /\ InArray(mem_phys2pi(RRADDR(rr)))
    /\ mem_freelock = 0
    /\ mem_freelock' = c
    /\ lp' = [lp EXCEPT ![c] = NULL]
    /\ pc' = [pc EXCEPT ![c] = "T_scan1"]
    /\ dup' = [dup EXCEPT ![c] = FALSE]
    /\ strict' = (strict /\ pi \in owned[c])
    /\ UNCHANGED <<boot, nvram, stamped, ld, mem_max, mem_npage, mi, mc,
                   heap, freelist_lock, owned, tracked,
                   want, rc0, nfree, panic>>
    /\ UNCHANGED tvars

\* Lines 130-148: the assertions, the lock, and the head of the bucket.
TrackEnter(c, rr, pi) ==
    /\ Idle(c)
    /\ nrr < MaxRR
    /\ nrr' = nrr + 1
    /\ arg_rr' = [arg_rr EXCEPT ![c] = rr]
    /\ arg_pi' = [arg_pi EXCEPT ![c] = pi]
    /\ IF ~(InArray(pi) /\ NotPinned(pi))
       THEN /\ Panic(c, "track_assert_pi")
            /\ UNCHANGED <<mem_freelock, lp>>
       ELSE /\ mem_freelock = 0
            /\ mem_freelock' = c
            /\ IF ~(NodeOk(rr) /\ InArray(mem_phys2pi(RRADDR(rr))))
               THEN /\ Panic(c, "track_assert_rr")
                    /\ UNCHANGED lp
               ELSE /\ lp' = [lp EXCEPT ![c] = homelist[mem_phys2pi(RRADDR(rr))]]
                    /\ pc' = [pc EXCEPT ![c] = "T_scan1"]
                    /\ UNCHANGED panic
    /\ dup' = [dup EXCEPT ![c] =
                  /\ mem_phys2pi(RRADDR(rr)) \in Slots
                  /\ \E e \in Range(HomeChain(mem_phys2pi(RRADDR(rr)))) : home[e] = rr]
    /\ strict' = (strict /\ pi \in owned[c])
    /\ UNCHANGED <<boot, nvram, stamped, ld, mem_max, mem_npage, mi, mc,
                   heap, freelist_lock, owned, tracked,
                   want, rc0, nfree>>
    /\ UNCHANGED tvars

\* Lines 152-153: the loop test and the first assertion of the body.
TrackScan1(c) ==
    /\ panic = "" /\ pc[c] = "T_scan1"
    /\ IF lp[c] = NULL
       THEN pc' = [pc EXCEPT ![c] = "T_ins"] /\ UNCHANGED panic
       ELSE IF RRADDR(home[lp[c]]) # RRADDR(arg_rr[c])
            THEN Panic(c, "track_assert_addr")
            ELSE pc' = [pc EXCEPT ![c] = "T_scan2"] /\ UNCHANGED panic
    /\ UNCHANGED <<boot, nvram, stamped, ld, mem_max, mem_npage, mi, mc,
                   heap, freelist_lock, mem_freelock, lp,
                   arg_rr, arg_pi, owned, tracked, want, rc0, dup, strict, nfree,
                   nrr>>
    /\ UNCHANGED tvars

\* Line 154 and the loop's step: spi->home is read again.
TrackScan2(c) ==
    /\ panic = "" /\ pc[c] = "T_scan2"
    /\ IF home[lp[c]] = arg_rr[c]
       THEN Panic(c, "track_assert_dup") /\ UNCHANGED lp
       ELSE /\ lp' = [lp EXCEPT ![c] = homenext[lp[c]]]
            /\ pc' = [pc EXCEPT ![c] = "T_scan1"]
            /\ UNCHANGED panic
    /\ UNCHANGED <<boot, nvram, stamped, ld, mem_max, mem_npage, mi, mc,
                   heap, freelist_lock, mem_freelock,
                   arg_rr, arg_pi, owned, tracked, want, rc0, dup, strict, nfree,
                   nrr>>
    /\ UNCHANGED tvars

\* Lines 158-162: insert pi at the head of the bucket, release.
TrackInsert(c) ==
    /\ panic = "" /\ pc[c] = "T_ins"
    /\ home' = [home EXCEPT ![arg_pi[c]] = arg_rr[c]]
    /\ homenext' = [homenext EXCEPT ![arg_pi[c]] = homelist[Hpi(c)]]
    /\ homelist' = [homelist EXCEPT ![Hpi(c)] = arg_pi[c]]
    /\ mem_freelock' = 0
    /\ tracked' = [tracked EXCEPT ![arg_rr[c]] = arg_pi[c]]
    /\ arg_rr' = [arg_rr EXCEPT ![c] = 0]
    /\ arg_pi' = [arg_pi EXCEPT ![c] = NULL]
    /\ dup' = [dup EXCEPT ![c] = FALSE]
    /\ pc' = [pc EXCEPT ![c] = "idle"]
    /\ UNCHANGED <<boot, nvram, stamped, ld, mem_max, mem_npage, mi, mc,
                   mem_freelist, refcount, free_next, shared,
                   freelist_lock, lp, owned, want, rc0, strict, nfree, nrr,
                   panic>>
    /\ UNCHANGED tvars

\* ---------------------------------------------------------- mem_rrlookup
InLookup(c) == pc[c] \in {"L_scan1", "L_scan2", "L_rel"}

\* Lines 173-182: the lock, the assertions, and the head of the bucket.
LookEnter(c, rr) ==
    /\ Idle(c)
    /\ nrr < MaxRR
    /\ \A a \in Slots : refcount[a] + Cardinality({d \in Cpus : InLookup(d)}) < MaxRef
    /\ nrr' = nrr + 1
    /\ mem_freelock = 0
    /\ mem_freelock' = c
    /\ arg_rr' = [arg_rr EXCEPT ![c] = rr]
    /\ want' = [want EXCEPT ![c] = tracked[rr]]
    /\ rc0' = [rc0 EXCEPT ![c] = IF tracked[rr] = NULL THEN 0 ELSE refcount[tracked[rr]]]
    /\ IF ~(NodeOk(rr) /\ InArray(mem_phys2pi(RRADDR(rr))))
       THEN /\ Panic(c, "lookup_assert_rr")
            /\ UNCHANGED lp
       ELSE /\ lp' = [lp EXCEPT ![c] = homelist[mem_phys2pi(RRADDR(rr))]]
            /\ pc' = [pc EXCEPT ![c] = "L_scan1"]
            /\ UNCHANGED panic
    /\ UNCHANGED <<boot, nvram, stamped, ld, mem_max, mem_npage, mi, mc,
                   heap, freelist_lock, arg_pi, owned,
                   tracked, dup, strict, nfree>>
    /\ UNCHANGED tvars

\* Lines 182-183: the loop test and the assertion of the body.
LookScan1(c) ==
    /\ panic = "" /\ pc[c] = "L_scan1"
    /\ IF lp[c] = NULL
       THEN pc' = [pc EXCEPT ![c] = "L_rel"] /\ UNCHANGED panic
       ELSE IF RRADDR(home[lp[c]]) # RRADDR(arg_rr[c])
            THEN Panic(c, "lookup_assert_addr")
            ELSE pc' = [pc EXCEPT ![c] = "L_scan2"] /\ UNCHANGED panic
    /\ UNCHANGED <<boot, nvram, stamped, ld, mem_max, mem_npage, mi, mc,
                   heap, freelist_lock, mem_freelock, lp,
                   arg_rr, arg_pi, owned, tracked, want, rc0, dup, strict, nfree,
                   nrr>>
    /\ UNCHANGED tvars

\* Lines 184-189 and the loop's step: on a hit take a reference and leave
\* the loop, else go on to pi->homenext.
LookScan2(c) ==
    /\ panic = "" /\ pc[c] = "L_scan2"
    /\ IF home[lp[c]] = arg_rr[c]
       THEN /\ refcount' = mem_incref(refcount, lp[c])
            /\ rc0' = [d \in Cpus |->
                         IF d # c /\ InLookup(d) /\ want[d] = lp[c]
                         THEN rc0[d] + 1 ELSE rc0[d]]
            /\ pc' = [pc EXCEPT ![c] = "L_rel"]
            /\ UNCHANGED lp
       ELSE /\ lp' = [lp EXCEPT ![c] = homenext[lp[c]]]
            /\ pc' = [pc EXCEPT ![c] = "L_scan1"]
            /\ UNCHANGED <<refcount, rc0>>
    /\ UNCHANGED <<boot, nvram, stamped, ld, mem_max, mem_npage, mi, mc,
                   mem_freelist, free_next, home, homenext,
                   homelist, shared, freelist_lock, mem_freelock, arg_rr,
                   arg_pi, owned, tracked, want, dup, strict, nfree, nrr, panic>>
    /\ UNCHANGED tvars

\* Lines 192-193: release, return pi.
LookRelease(c) ==
    /\ panic = "" /\ pc[c] = "L_rel"
    /\ mem_freelock' = 0
    /\ lp' = [lp EXCEPT ![c] = NULL]
    /\ arg_rr' = [arg_rr EXCEPT ![c] = 0]
    /\ want' = [want EXCEPT ![c] = NULL]
    /\ rc0' = [rc0 EXCEPT ![c] = 0]
    /\ pc' = [pc EXCEPT ![c] = "idle"]
    /\ UNCHANGED <<boot, nvram, stamped, ld, mem_max, mem_npage, mi, mc,
                   heap, freelist_lock, arg_pi, owned,
                   tracked, dup, strict, nfree, nrr, panic>>
    /\ UNCHANGED tvars

\* The frames a mem_free in progress has taken over and not linked yet.
InFlight == {arg_pi[c] : c \in {d \in Cpus : pc[d] \in {"F_load", "F_next",
                                                            "F_link"}}}

Held == UNION {owned[c] : c \in Cpus}

\* The allocator alone: any number of frames held, no tracker calls.
Next ==
    \E c \in Cpus :
        \/ BootOnce(c) /\ mem_init(c)
        \/ mem_init_body(c)
        \/ mem_check(c)
        \/ Started /\ AllocAcquire(c)
        \/ mem_alloc_body(c)
        \/ Started /\ nfree < MaxFree /\ \E pi \in owned[c] : FreeAcquire(c, pi)
        \/ mem_free_body(c)

Spec == Init /\ [][Next]_vars

\* The allocator and the tracker together, with few frames held at once.
NextRR ==
    \E c \in Cpus :
        \/ BootOnce(c) /\ mem_init(c)
        \/ mem_init_body(c)
        \/ mem_check(c)
        \/ /\ Started
           /\ Cardinality(Held) + Cardinality(InAlloc) < MaxHeld
           /\ AllocAcquire(c)
        \/ mem_alloc_body(c)
        \/ Started /\ nfree < MaxFree /\ \E pi \in owned[c] : FreeAcquire(c, pi)
        \/ mem_free_body(c)
        \/ Started /\ \E rr \in RRArgs : \E pi \in owned[c] : TrackEnter(c, rr, pi)
        \/ TrackScan1(c)
        \/ TrackScan2(c)
        \/ TrackInsert(c)
        \/ Started /\ \E rr \in RRArgs : LookEnter(c, rr)
        \/ LookScan1(c)
        \/ LookScan2(c)
        \/ LookRelease(c)

SpecRR == Init /\ [][NextRR]_vars

\* The allocator with callers that may free a frame more than once: mem_free
\* is given a frame the caller holds or a frame that is on the free list.
NextDF ==
    \E c \in Cpus :
        \/ BootOnce(c) /\ mem_init(c)
        \/ mem_init_body(c)
        \/ mem_check(c)
        \/ /\ Started
           /\ Cardinality(Held) + Cardinality(InAlloc) < MaxHeld
           /\ AllocAcquire(c)
        \/ mem_alloc_body(c)
        \/ Started /\ nfree < MaxFree + 1
           /\ \E pi \in owned[c] \cup Range(FreeSeq) : FreeAcquire(c, pi)
        \/ mem_free_body(c)

SpecDF == Init /\ [][NextDF]_vars

\* The tracker called with any argument, also one that breaks the protocol.
NextPV ==
    \E c \in Cpus :
        \/ BootOnce(c) /\ mem_init(c)
        \/ mem_init_body(c)
        \/ mem_check(c)
        \/ /\ Started
           /\ Cardinality(Held) + Cardinality(InAlloc) < MaxHeld
           /\ AllocAcquire(c)
        \/ mem_alloc_body(c)
        \/ Started /\ \E rr \in RRAll : \E pi \in owned[c] \cup PinnedPis : TrackEnter(c, rr, pi)
        \/ TrackScan1(c)
        \/ TrackScan2(c)
        \/ TrackInsert(c)
        \/ Started /\ \E rr \in RRAll : LookEnter(c, rr)
        \/ LookScan1(c)
        \/ LookScan2(c)
        \/ LookRelease(c)

SpecPV == Init /\ [][NextPV]_vars

\* ============================================================ kern/trap.c
\* Trap numbers (inc/trap.h); the table of trap_name gives 0..19 their place.
T_DIVIDE == 0
T_DEBUG == 1
T_NMI == 2
T_BRKPT == 3
T_OFLOW == 4
T_BOUND == 5
T_ILLOP == 6
T_DEVICE == 7
T_DBLFLT == 8
T_TSS == 10
T_SEGNP == 11
T_STACK == 12
T_GPFLT == 13
T_PGFLT == 14
T_FPERR == 16
T_ALIGN == 17
T_MCHK == 18
T_SIMD == 19
T_SECEV == 30
T_IRQ0 == 32
T_SYSCALL == 48
T_LTIMER == 49

IRQ_KBD == 1
IRQ_SERIAL == 4
IRQ_SPURIOUS == 7

\* Code segment selectors of the kernel and of user code: cs & 3 is the
\* privilege of the interrupted context.
KernelCs == 8
UserCs == 27

\* tf->cs & 3
Cpl(cs) == cs % 4

\* SETGATE(idt[vec], 0, CPU_GDT_KCODE, &off, dpl), in the order of the code.
Gates ==
    << <<T_DIVIDE, "tdivide", 0>>, <<T_DEBUG, "tdebug", 0>>,
       <<T_NMI, "tnmi", 0>>, <<T_BRKPT, "tbrkpt", 3>>,
       <<T_OFLOW, "toflow", 3>>, <<T_BOUND, "tbound", 0>>,
       <<T_ILLOP, "tillop", 0>>, <<T_DEVICE, "tdivide", 0>>,
       <<T_DBLFLT, "tdblflt", 0>>, <<T_TSS, "ttss", 0>>,
       <<T_SEGNP, "tsegnp", 0>>, <<T_STACK, "tstack", 0>>,
       <<T_GPFLT, "tgpflt", 0>>, <<T_PGFLT, "tpgflt", 0>>,
       <<T_FPERR, "tfperr", 0>>, <<T_ALIGN, "talign", 0>>,
       <<T_MCHK, "tmchk", 0>>, <<T_SIMD, "tsimd", 0>>,
       <<T_SECEV, "tsecev", 0>>,
       <<T_IRQ0, "tirq0", 0>>, <<T_IRQ0 + IRQ_KBD, "tirqkbd", 0>>,
       <<T_IRQ0 + IRQ_SERIAL, "tirqser", 0>>,
       <<T_IRQ0 + IRQ_SPURIOUS, "tirqspur", 0>>,
       <<T_IRQ0 + 2, "tirq2", 0>>, <<T_IRQ0 + 3, "tirq3", 0>>,
       <<T_IRQ0 + 5, "tirq5", 0>>, <<T_IRQ0 + 6, "tirq6", 0>>,
       <<T_IRQ0 + 8, "tirq8", 0>>, <<T_IRQ0 + 9, "tirq9", 0>>,
       <<T_IRQ0 + 10, "tirq10", 0>>, <<T_IRQ0 + 11, "tirq11", 0>>,
       <<T_IRQ0 + 12, "tirq12", 0>>, <<T_IRQ0 + 13, "tirq13", 0>>,
       <<T_IRQ0 + 14, "tirq14", 0>>, <<T_IRQ0 + 15, "tirq15", 0>>,
       <<T_SYSCALL, "tsystem", 3>>, <<T_LTIMER, "tltimer", 0>> >>

\* SETGATE: the gate becomes present with the given entry point and DPL.
SETGATE(table, g) ==
    [table EXCEPT ![g[1]] = [off |-> g[2], dpl |-> g[3], p |-> TRUE]]

RECURSIVE SetGates(_, _, _)
SetGates(table, gs, i) ==
    IF i > Len(gs) THEN table
    ELSE SetGates(SETGATE(table, gs[i]), gs, i + 1)

\* Gates with the system-call gate left at kernel privilege.
GatesKernelOnly ==
    [i \in 1 .. Len(Gates) |->
        IF Gates[i][1] = T_SYSCALL THEN <<T_SYSCALL, "tsystem", 0>> ELSE Gates[i]]

\* trap_init_idt built from GatesKernelOnly.
trap_init_idt_KernelOnly(table) == SetGates(table, GatesKernelOnly, 1)

\* trap_init_idt(): every SETGATE of lines 55-95 in turn.
trap_init_idt(table) == SetGates(table, Gates, 1)

\* ------------------------------------------------------ trap(): its inputs
\* The vectors the hardware delivers in the model: exceptions, the system
\* call, the timer, the device interrupts and two further IRQ lines.
TrapNos == {T_DIVIDE, T_BRKPT, T_GPFLT, T_PGFLT, T_SYSCALL, T_LTIMER,
            T_IRQ0 + IRQ_KBD, T_IRQ0 + IRQ_SERIAL, T_IRQ0 + IRQ_SPURIOUS,
            T_IRQ0 + 5, T_IRQ0 + 11}

\* The interrupt lines the network device may have registered (e100_irq).
E100Irqs == {5, 11}

\* net_node, and the nodes a process may have as its home.
net_node == 1

Nodes == 1 .. NET_MAXNODES

\* What the external functions trap() calls do after the call: return to
\* trap() (TRUE), never return (FALSE), or either.
Returns(f) ==
    CASE f \in {"pmap_pagefault", "syscall"} -> {TRUE, FALSE}
      [] f \in {"trap_return", "proc_yield", "net_migrate", "proc_ret",
                "panic"} -> {FALSE}
      [] OTHER -> {TRUE}

\* The vector the processor delivers for an instruction that raises vec:
\* a software interrupt (int3, into, int n) from user privilege through a
\* gate of lower DPL is a general protection fault instead.
Deliver(table, vec, cs, soft) ==
    IF soft /\ Cpl(cs) > table[vec].dpl THEN T_GPFLT ELSE vec

\* The exceptions trap_check provokes, in order: the vector raised, whether
\* by a software-interrupt instruction, and the label execution resumes at.
Provoked ==
    << [vec |-> T_DIVIDE, soft |-> FALSE, reip |-> "after_div0"],
       [vec |-> T_BRKPT, soft |-> TRUE, reip |-> "after_breakpoint"],
       [vec |-> T_OFLOW, soft |-> TRUE, reip |-> "after_overflow"],
       [vec |-> T_BOUND, soft |-> FALSE, reip |-> "after_bound"],
       [vec |-> T_ILLOP, soft |-> FALSE, reip |-> "after_illegal"],
       [vec |-> T_GPFLT, soft |-> FALSE, reip |-> "after_gpfault"],
       [vec |-> T_GPFLT, soft |-> FALSE, reip |-> "after_priv"] >>

\* The last exception trap_check provokes at privilege cs: the privilege
\* violation is tried only in user mode.
LastProvoked(cs) == IF Cpl(cs) # 0 THEN Len(Provoked) ELSE Len(Provoked) - 1

\* No trap is being handled and the kernel has not stopped.
Running == tpc = "run" /\ tpanic = ""

\* The trap ends: control leaves trap() for good.
End(kind) == tpc' = "run" /\ tend' = kind

Logged(calls) == tlog' = tlog \o calls

\* The word is the address of one of trap_check's labels; which one.
IsLabel(w) == \E j \in 1 .. Len(Provoked) : Provoked[j].reip = w

LabelIndex(w) == CHOOSE j \in 1 .. Len(Provoked) : Provoked[j].reip = w

\* --------------------------------------------- trap_init, trap_check_*
\* trap_init() on processor c, lines 98-110: on the boot processor it
\* builds the table; every processor loads its IDT register; the boot
\* processor goes on to call trap_check_kernel.
trap_init(c) ==
    /\ Running /\ ~idtr[c]
    /\ idtr' = [idtr EXCEPT ![c] = TRUE]
    /\ IF c = BootCpu
       THEN /\ idt' = trap_init_idt(idt)
            /\ chk' = [k |-> 0, stage |-> "kernel", cs |-> KernelCs]
       ELSE UNCHANGED <<idt, chk>>
    /\ UNCHANGED <<recover, recoverdata, tcpu, tf, e100_irq, curhome, tpc,
                   tlog, tend, args, tpanic>>
    /\ UNCHANGED mvars

\* trap_check_kernel(), line 276: the hook is installed in cpu_cur().
trap_check_kernel ==
    /\ Running /\ chk.stage = "kernel"
    /\ recover' = [recover EXCEPT ![BootCpu] = "trap_check_recover"]
    /\ chk' = [chk EXCEPT !.stage = "install"]
    /\ UNCHANGED <<idt, idtr, recoverdata, tcpu, tf, e100_irq, curhome, tpc,
                   tlog, tend, args, tpanic>>
    /\ UNCHANGED mvars

\* trap_check_user(), called from user mode on the boot processor: the
\* hook is installed in cpu_boot (line 293).
trap_check_user(c) ==
    /\ Running /\ c = BootCpu /\ idtr[c] /\ chk = NoCheck
    /\ recover' = [recover EXCEPT ![c] = "trap_check_recover"]
    /\ chk' = [k |-> 0, stage |-> "install", cs |-> UserCs]
    /\ UNCHANGED <<idt, idtr, recoverdata, tcpu, tf, e100_irq, curhome, tpc,
                   tlog, tend, args, tpanic>>
    /\ UNCHANGED mvars

\* trap_check lines 313-315: args is declared without an initialiser and
\* *argsp = &args. The slot holds what the stack held there: the contents
\* an earlier trap_check left in it, or other words.
CheckData ==
    /\ Running /\ chk.stage = "install"
    /\ recoverdata' = [recoverdata EXCEPT ![BootCpu] = "args"]
    /\ args' \in {args, NoArgs}
    /\ chk' = [chk EXCEPT !.k = 0, !.stage = "arm"]
    /\ UNCHANGED <<idt, idtr, recover, tcpu, tf, e100_irq, curhome, tpc, tlog,
                   tend, tpanic>>
    /\ UNCHANGED mvars

\* Lines 321, 330, 335, 340, 346, 351 and 357: args.reip = the label
\* after the next provoking instruction (the seventh only at user
\* privilege, line 356).
CheckArm ==
    /\ Running /\ chk.stage = "arm" /\ chk.k < LastProvoked(chk.cs)
    /\ args' = [args EXCEPT !.reip = Provoked[chk.k + 1].reip]
    /\ chk' = [chk EXCEPT !.k = @ + 1, !.stage = "armed"]
    /\ UNCHANGED <<idt, idtr, recover, recoverdata, tcpu, tf, e100_irq,
                   curhome, tpc, tlog, tend, tpanic>>
    /\ UNCHANGED mvars

\* The instruction that raises the k-th exception executes.
CheckProvoke ==
    /\ Running /\ chk.stage = "armed"
    /\ tcpu' = BootCpu
    /\ tf' = [trapno |-> Deliver(idt, Provoked[chk.k].vec, chk.cs,
                                 Provoked[chk.k].soft),
              cs |-> chk.cs, eip |-> "provoke"]
    /\ tpc' = "T_pgflt"
    /\ tlog' = <<>> /\ tend' = "" /\ e100_irq' = 0 /\ curhome' = 0
    /\ UNCHANGED <<idt, idtr, recover, recoverdata, args, chk, tpanic>>
    /\ UNCHANGED mvars

\* The assertion at the label the k-th exception resumes at.
CheckAssert ==
    /\ Running /\ chk.stage = "back"
    /\ IF args.trapno # Provoked[chk.k].vec
       THEN /\ tpanic' = "trap_check_assert"
            /\ UNCHANGED chk
       ELSE /\ UNCHANGED tpanic
            /\ chk' = [chk EXCEPT !.stage = "arm"]
    /\ UNCHANGED <<idt, idtr, recover, recoverdata, tcpu, tf, e100_irq,
                   curhome, tpc, tlog, tend, args>>
    /\ UNCHANGED mvars

\* Line 366, after the last assertion: *argsp = NULL.
CheckClear ==
    /\ Running /\ chk.stage = "arm" /\ chk.k = LastProvoked(chk.cs)
    /\ recoverdata' = [recoverdata EXCEPT ![BootCpu] = "NULL"]
    /\ chk' = [chk EXCEPT !.stage = "clearing"]
    /\ UNCHANGED <<idt, idtr, recover, tcpu, tf, e100_irq, curhome, tpc, tlog,
                   tend, args, tpanic>>
    /\ UNCHANGED mvars

\* The kernel's start-up order: the boot processor has built and loaded
\* the table before another processor is started.
TableFirst(c) == c # BootCpu => idtr[BootCpu]

\* Lines 279 and 296: c->recover = NULL.
CheckDone ==
    /\ Running /\ chk.stage = "clearing"
    /\ recover' = [recover EXCEPT ![BootCpu] = "NULL"]
    /\ chk' = NoCheck
    /\ UNCHANGED <<idt, idtr, recoverdata, tcpu, tf, e100_irq, curhome, tpc,
                   tlog, tend, args, tpanic>>
    /\ UNCHANGED mvars

\* ------------------------------------------------------------------ trap()
\* A trap or interrupt of vector no is taken on processor c from a context
\* of code segment cs; the entry stub calls trap(tf).
TrapEnter(c, no, cs) ==
    /\ Running /\ idtr[c] /\ idt[no].p
    /\ (c = BootCpu /\ chk # NoCheck) => cs = chk.cs
    /\ tcpu' = c
    /\ tf' = [trapno |-> no, cs |-> cs, eip |-> "interrupted"]
    /\ tpc' = "T_pgflt"
    /\ tlog' = <<>> /\ tend' = "" /\ e100_irq' = 0 /\ curhome' = 0
    /\ UNCHANGED <<idt, idtr, recover, recoverdata, args, chk, tpanic>>
    /\ UNCHANGED mvars

\* TrapPgflt that never calls the fault handler.
TrapPgfltSkip ==
    /\ tpc = "T_pgflt"
    /\ tpc' = "T_recover"
    /\ UNCHANGED <<idt, idtr, recover, recoverdata, tcpu, tf, e100_irq,
                   curhome, tlog, tend, args, chk, tpanic>>
    /\ UNCHANGED mvars

\* Lines 189-190: a page fault goes to pmap_pagefault first, which returns
\* or resumes the interrupted context itself.
TrapPgflt ==
    /\ tpc = "T_pgflt"
    /\ IF tf.trapno = T_PGFLT
       THEN /\ Logged(<<"pmap_pagefault">>)
            /\ \E ret \in Returns("pmap_pagefault") :
                  IF ret THEN tpc' = "T_recover" /\ UNCHANGED tend
                  ELSE End("pagefault")
       ELSE /\ tpc' = "T_recover"
            /\ UNCHANGED <<tlog, tend>>
    /\ UNCHANGED <<idt, idtr, recover, recoverdata, tcpu, tf, e100_irq,
                   curhome, args, chk, tpanic>>
    /\ UNCHANGED mvars

\* TrapRecover whose hook records the trap number and resumes at the
\* interrupted instruction: the frame's eip is left as it was.
TrapRecoverKeepsEip ==
    /\ tpc = "T_recover"
    /\ IF recover[tcpu] = "NULL"
       THEN /\ tpc' = "T_switch"
            /\ UNCHANGED <<tf, args, chk, tlog, tend, tpanic>>
       ELSE IF recoverdata[tcpu] = "args"
            THEN /\ args' = [args EXCEPT !.trapno = tf.trapno]
                 /\ Logged(<<"recover", "trap_return">>)
                 /\ tend' = "resume"
                 /\ IF IsLabel(args.reip)
                    THEN /\ tpc' = "run"
                         /\ chk' = [chk EXCEPT !.k = LabelIndex(args.reip),
                                               !.stage = "back"]
                         /\ UNCHANGED <<tf, tpanic>>
                    ELSE /\ tpc' = "lost" /\ tpanic' = "wild_eip"
                         /\ UNCHANGED <<tf, chk>>
            ELSE /\ \/ /\ Logged(<<"recover">>)
                       /\ tpc' = "panic" /\ tpanic' = "null_deref"
                       /\ tend' = "panic"
                       /\ UNCHANGED tf
                    \/ /\ tf' = [tf EXCEPT !.eip = Junk]
                       /\ Logged(<<"recover", "trap_return">>)
                       /\ tpc' = "lost" /\ tpanic' = "wild_eip"
                       /\ tend' = "resume"
                 /\ UNCHANGED <<args, chk>>
    /\ UNCHANGED <<idt, idtr, recover, recoverdata, tcpu, e100_irq, curhome>>
    /\ UNCHANGED mvars

\* TrapRecover that ignores the recovery hook.
TrapRecoverSkip ==
    /\ tpc = "T_recover"
    /\ tpc' = "T_switch"
    /\ UNCHANGED <<idt, idtr, recover, recoverdata, tcpu, tf, e100_irq,
                   curhome, tlog, tend, args, chk, tpanic>>
    /\ UNCHANGED mvars

\* Lines 200-201 and trap_check_recover (lines 261-267): with a hook
\* installed it is called with tf and c->recoverdata; it stores the
\* recovery eip in the frame and the trap number in *args, and resumes.
\* Execution continues at the label whose address the frame's eip now
\* holds, or is lost when that word is no label. With recoverdata NULL the
\* hook reads and writes through a null pointer: the access stops the
\* kernel, or, where address 0 is mapped, the frame resumes at the word
\* found there and the trap number goes to the word after it.
TrapRecover ==
    /\ tpc = "T_recover"
    /\ IF recover[tcpu] = "NULL"
       THEN /\ tpc' = "T_switch"
            /\ UNCHANGED <<tf, args, chk, tlog, tend, tpanic>>
       ELSE IF recoverdata[tcpu] = "args"
            THEN /\ tf' = [tf EXCEPT !.eip = args.reip]
                 /\ args' = [args EXCEPT !.trapno = tf.trapno]
                 /\ Logged(<<"recover", "trap_return">>)
                 /\ tend' = "resume"
                 /\ IF IsLabel(args.reip)
                    THEN /\ tpc' = "run"
                         /\ chk' = [chk EXCEPT !.k = LabelIndex(args.reip),
                                               !.stage = "back"]
                         /\ UNCHANGED tpanic
                    ELSE /\ tpc' = "lost" /\ tpanic' = "wild_eip"
                         /\ UNCHANGED chk
            ELSE /\ \/ /\ Logged(<<"recover">>)
                       /\ tpc' = "panic" /\ tpanic' = "null_deref"
                       /\ tend' = "panic"
                       /\ UNCHANGED tf
                    \/ /\ tf' = [tf EXCEPT !.eip = Junk]
                       /\ Logged(<<"recover", "trap_return">>)
                       /\ tpc' = "lost" /\ tpanic' = "wild_eip"
                       /\ tend' = "resume"
                 /\ UNCHANGED <<args, chk>>
    /\ UNCHANGED <<idt, idtr, recover, recoverdata, tcpu, e100_irq, curhome>>
    /\ UNCHANGED mvars

\* TrapSwitch whose timer case yields whatever the interrupted privilege.
TrapSwitchYieldAlways ==
    /\ tpc = "T_switch"
    /\ IF tf.trapno = T_LTIMER
       THEN Logged(<<"net_tick", "lapic_eoi", "proc_yield">>) /\ End("yield")
       ELSE tpc' = "T_dev" /\ UNCHANGED <<tlog, tend>>
    /\ UNCHANGED <<idt, idtr, recover, recoverdata, tcpu, tf, e100_irq,
                   curhome, args, chk, tpanic>>
    /\ UNCHANGED mvars

\* Lines 203-228: the switch on tf->trapno.
TrapSwitch ==
    /\ tpc = "T_switch"
    /\ CASE tf.trapno = T_SYSCALL ->
              /\ Logged(<<"syscall">>)
              /\ \E ret \in Returns("syscall") :
                    IF ret THEN tpc' = "T_dev" /\ UNCHANGED tend
                    ELSE End("syscall")
         [] tf.trapno = T_LTIMER ->
              IF Cpl(tf.cs) # 0
              THEN Logged(<<"net_tick", "lapic_eoi", "proc_yield">>) /\ End("yield")
              ELSE Logged(<<"net_tick", "lapic_eoi", "trap_return">>) /\ End("resume")
         [] tf.trapno = T_IRQ0 + IRQ_KBD ->
              Logged(<<"kbd_intr", "lapic_eoi", "trap_return">>) /\ End("resume")
         [] tf.trapno = T_IRQ0 + IRQ_SERIAL ->
              Logged(<<"lapic_eoi", "serial_intr", "trap_return">>) /\ End("resume")
         [] tf.trapno = T_IRQ0 + IRQ_SPURIOUS ->
              Logged(<<"cprintf", "trap_return">>) /\ End("resume")
         [] OTHER ->
              tpc' = "T_dev" /\ UNCHANGED <<tlog, tend>>
    /\ UNCHANGED <<idt, idtr, recover, recoverdata, tcpu, tf, e100_irq,
                   curhome, args, chk, tpanic>>
    /\ UNCHANGED mvars

\* Lines 182 and 230-234: the network device's vector, read from e100_irq.
TrapDevice ==
    /\ tpc = "T_dev"
    /\ \E irq \in E100Irqs :
          /\ e100_irq' = irq
          /\ IF tf.trapno = T_IRQ0 + irq
             THEN Logged(<<"e100_intr", "lapic_eoi", "trap_return">>) /\ End("resume")
             ELSE tpc' = "T_user" /\ UNCHANGED <<tlog, tend>>
    /\ UNCHANGED <<idt, idtr, recover, recoverdata, tcpu, tf, curhome, args,
                   chk, tpanic>>
    /\ UNCHANGED mvars

\* TrapUser that returns to the parent whatever the home node.
TrapUserAlwaysParent ==
    /\ tpc = "T_user"
    /\ IF Cpl(tf.cs) # 0
       THEN /\ \E h \in Nodes : curhome' = h
            /\ Logged(<<"proc_ret">>) /\ End("parent")
       ELSE /\ tpc' = "T_panic"
            /\ UNCHANGED <<curhome, tlog, tend>>
    /\ UNCHANGED <<idt, idtr, recover, recoverdata, tcpu, tf, e100_irq, args,
                   chk, tpanic>>
    /\ UNCHANGED mvars

\* Lines 237-245: a trap from user mode goes to the process's home node or
\* back to its parent.
TrapUser ==
    /\ tpc = "T_user"
    /\ IF Cpl(tf.cs) # 0
       THEN \E h \in Nodes :
              /\ curhome' = h
              /\ IF h # net_node
                 THEN Logged(<<"cprintf", "net_migrate">>) /\ End("migrate")
                 ELSE Logged(<<"proc_ret">>) /\ End("parent")
       ELSE /\ tpc' = "T_panic"
            /\ UNCHANGED <<curhome, tlog, tend>>
    /\ UNCHANGED <<idt, idtr, recover, recoverdata, tcpu, tf, e100_irq, args,
                   chk, tpanic>>
    /\ UNCHANGED mvars

\* TrapPanic that resumes the interrupted context instead.
TrapPanicResume ==
    /\ tpc = "T_panic"
    /\ Logged(<<"trap_return">>) /\ End("resume")
    /\ UNCHANGED <<idt, idtr, recover, recoverdata, tcpu, tf, e100_irq,
                   curhome, args, chk, tpanic>>
    /\ UNCHANGED mvars

\* Lines 249-254: print the frame and panic.
TrapPanic ==
    /\ tpc = "T_panic"
    /\ Logged(<<"trap_print", "panic">>)
    /\ tpanic' = IF Cpl(tf.cs) # 0 THEN "unhandled trap in user mode"
                 ELSE "unhandled trap in kernel"
    /\ tpc' = "panic" /\ tend' = "panic"
    /\ UNCHANGED <<idt, idtr, recover, recoverdata, tcpu, tf, e100_irq,
                   curhome, args, chk>>
    /\ UNCHANGED mvars

NextTrap ==
    \/ \E c \in Cpus :
          \/ TableFirst(c) /\ trap_init(c)
          \/ trap_check_user(c)
          \/ \E no \in TrapNos : \E cs \in {KernelCs, UserCs} : TrapEnter(c, no, cs)
    \/ trap_check_kernel
    \/ CheckData
    \/ CheckArm
    \/ CheckProvoke
    \/ CheckAssert
    \/ CheckClear
    \/ CheckDone
    \/ TrapPgflt
    \/ TrapRecover
    \/ TrapSwitch
    \/ TrapDevice
    \/ TrapUser
    \/ TrapPanic

SpecTrap == Init /\ [][NextTrap]_vars

\* Start-up on every processor, in any order with the use of the allocator
\* and of the tracker: mem_init and trap_init on each processor, the boot
\* processor's self-test of the trap path, allocations and mem_rrtrack.
NextOnce ==
    \/ \E c \in Cpus :
          \/ BootOnce(c) /\ mem_init(c)
          \/ mem_init_body(c)
          \/ mem_check(c)
          \/ TableFirst(c) /\ trap_init(c)
          \/ /\ Started
             /\ Cardinality(Held) + Cardinality(InAlloc) < MaxHeld
             /\ AllocAcquire(c)
          \/ mem_alloc_body(c)
          \/ Started /\ \E rr \in RRArgs : \E pi \in owned[c] : TrackEnter(c, rr, pi)
          \/ TrackScan1(c)
          \/ TrackScan2(c)
          \/ TrackInsert(c)
    \/ trap_check_kernel
    \/ CheckData
    \/ CheckArm
    \/ CheckProvoke
    \/ TrapPgflt
    \/ TrapRecover
    \/ CheckAssert
    \/ CheckClear
    \/ CheckDone

SpecOnce == Init /\ [][NextOnce]_vars

\* Memory sizing: mem_init on machines of different NVRAM contents.
NextSize ==
    \E c \in Cpus :
        \/ BootOnce(c) /\ mem_init(c)
        \/ mem_init_body(c)
        \/ mem_check(c)

SpecSize == InitSize /\ [][NextSize]_vars

\* Start-up without the kernel's start-up order: the processors call
\* mem_alloc and mem_free while the boot processor is inside mem_init and
\* mem_check.
NextBoot ==
    \E c \in Cpus :
        \/ BootOnce(c) /\ mem_init(c)
        \/ mem_init_body(c)
        \/ mem_check(c)
        \/ /\ ~Started
           /\ Cardinality(Held) + Cardinality(InAlloc) < MaxBootHeld
           /\ AllocAcquire(c)
        \/ mem_alloc_body(c)
        \/ /\ ~Started /\ nfree < MaxFree
           /\ \E pi \in owned[c] : FreeAcquire(c, pi)
        \/ mem_free_body(c)

SpecBoot == Init /\ [][NextBoot]_vars

\* ================================================================ claims
\* The frames mem_init must keep off the free list: frames 0 and 1, the
\* I/O hole above base memory, the kernel image, and the pages that hold
\* the descriptor array.
Reserved ==
    {0, 1} \cup (BasememPg .. (StartPg - 1)) \cup (StartPg .. EndPg)
           \cup ((ArrBase \div DescPerPage) ..
                 ((ArrBase + AssumedPg - 1) \div DescPerPage))

NonReserved == (0 .. (AssumedPg - 1)) \ Reserved

NoRepeat(q) == Cardinality(Range(q)) = Len(q)

\* C1: mem_alloc never hands out a frame that some processor still holds,
\* and two mem_alloc calls in progress never take the same frame; no frame
\* is held by two processors.
C1_NoDoubleIssue ==
    /\ \A c \in Cpus :
         (c \in InAlloc /\ lp[c] # NULL) =>
            /\ lp[c] \notin Held
            /\ \A d \in InAlloc \ {c} : lp[d] # lp[c]
    /\ \A c \in Cpus : \A d \in Cpus \ {c} : owned[c] \cap owned[d] = {}

\* C1 witness: a mem_alloc is about to return a frame while the other
\* processor holds frames and a frame has been freed before.
C1_Witness ==
    /\ pc[1] = "A_ret" /\ lp[1] # NULL
    /\ owned[2] # {}
    /\ nfree > 0

\* C2 (as claimed): a mem_alloc that finds the free list empty returns
\* NULL without touching anything; it never stops the kernel.
C2_ExhaustionOrdinary == ~(boot = "on" /\ panic = "null_deref")

\* C3: the free list is a null-terminated chain without repeats, and the
\* frames on it, the frames held (by a caller, or by a mem_alloc that has
\* taken them off the list and not returned yet) and the frames a mem_free
\* in progress is linking add up to the frames threaded at initialisation;
\* the frames held never exceed the frames outside the reserved ranges.
C3_Conservation ==
    boot = "on" =>
        /\ Len(FreeSeq) <= AssumedPg
        /\ NoRepeat(FreeSeq)
        /\ Range(FreeSeq) \cap (Held \cup Taken \cup InFlight) = {}
        /\ Len(FreeSeq) + Cardinality(Held \cup Taken \cup InFlight)
              = Cardinality({i \in 2 .. (AssumedPg - 1) :
                               InitFree(i, BasememPg, AssumedPg)})
        /\ Cardinality(Held \cup Taken) <= AssumedPg - Cardinality(Reserved)

\* C3 witness: frames have been freed, two frames are held, nothing is in
\* progress.
C3_Witness ==
    /\ boot = "on" /\ nfree = MaxFree
    /\ Cardinality(Held) >= 2
    /\ \A c \in Cpus : pc[c] = "idle"

\* C4: right after mem_init (nothing allocated or freed yet) the free list
\* holds exactly the frames outside the reserved ranges, each once, in
\* ascending frame order, null-terminated, all with refcount 0.
C4_InitPostcondition ==
    (boot = "on" /\ nfree = 0 /\ Held \cup Taken = {}) =>
        /\ Len(FreeSeq) <= AssumedPg
        /\ Range(FreeSeq) = {LocalPi(i) : i \in NonReserved}
        /\ \A i \in 1 .. Len(FreeSeq) : \A j \in 1 .. Len(FreeSeq) :
              i < j => FrameOf(FreeSeq[i]) < FrameOf(FreeSeq[j])
        /\ \A i \in 1 .. Len(FreeSeq) : refcount[FreeSeq[i]] = 0

\* C4 witness: the state mem_init leaves on the boot processor, with
\* frames below and above the reserved ranges on the list.
C4_Witness ==
    /\ boot = "on" /\ nfree = 0 /\ Held = {}
    /\ \E i \in 1 .. Len(FreeSeq) : FrameOf(FreeSeq[i]) < BasememPg
    /\ \E i \in 1 .. Len(FreeSeq) : FrameOf(FreeSeq[i]) > EndPg

\* C5 (as claimed): no step of a mem_alloc changes a refcount or any other
\* field of any descriptor: the call only takes the head off the free list.
C5_AllocOnlyUnlinks ==
    [][(\E c \in InAlloc : pc'[c] # pc[c]) =>
          /\ refcount' = refcount
          /\ home' = home
          /\ shared' = shared
          /\ homenext' = homenext
          /\ homelist' = homelist
          /\ free_next' = free_next]_vars

\* C6 (as claimed): a mem_rrlookup(r) called after mem_rrtrack(r, p) was
\* completed, with no frame freed in between, does not stop the kernel and
\* returns p with p's refcount one above what it would be without it.
C6_RoundTrip ==
    \A c \in Cpus :
        (want[c] # NULL /\ nfree = 0) =>
            /\ pc[c] # "panic"
            /\ pc[c] = "L_rel" =>
                  (lp[c] = want[c] /\ refcount[want[c]] = rc0[c] + 1)

\* C7 (as claimed): a mem_rrtrack whose bucket held an entry with the
\* identical rr when it was called is fatal: it never reaches the insertion
\* of lines 158-160, and no insertion is ever reached while the bucket holds
\* an entry whose home is that rr.
C7_DuplicateFatal ==
    \A c \in Cpus :
        /\ pc[c] = "T_ins" =>
              \A e \in Range(HomeChain(Hpi(c))) : home[e] # arg_rr[c]
        /\ dup[c] => pc[c] # "T_ins"

\* C8 (as claimed): a mem_rrlookup of a reference that no mem_rrtrack has
\* inserted (no frame freed so far) does not stop the kernel and returns
\* NULL.
C8_LookupMiss ==
    \A c \in Cpus :
        (/\ nfree = 0
         /\ \/ InLookup(c)
            \/ pc[c] = "panic" /\ panic = "lookup_assert_addr"
         /\ tracked[arg_rr[c]] = NULL) =>
            /\ pc[c] # "panic"
            /\ pc[c] = "L_rel" => lp[c] = NULL

\* C9: no two descriptors reachable from the home buckets carry the same
\* home value (0 is "no home").
C9_HomeUnique ==
    boot = "on" =>
        \A a \in InBuckets : \A b \in InBuckets :
            (a # b /\ home[a] # 0) => home[a] # home[b]

\* C9 witness: two descriptors with different homes are in the buckets
\* while a further mem_rrtrack is scanning.
C9_Witness ==
    /\ Cardinality({a \in InBuckets : home[a] # 0}) >= 2
    /\ \E c \in Cpus : pc[c] \in {"T_scan1", "T_scan2"}

\* C10 (as claimed): no descriptor is on the free list and in a home
\* bucket at once, and every descriptor on the free list has refcount 0.
C10_FreeOrTracked ==
    boot = "on" =>
        /\ Range(FreeSeq) \cap InBuckets = {}
        /\ \A a \in Range(FreeSeq) : refcount[a] = 0

\* C10 (amended): the same, as long as every mem_free and mem_rrtrack was
\* given a frame its caller holds, and every frame given to mem_free had
\* refcount 0 and was in no home bucket.
C10_FreeOrTrackedUnderContract == strict => C10_FreeOrTracked

\* C10 witness: under that contract a frame has been freed, a frame is in
\* a bucket and a lookup has taken a reference.
C10_Witness ==
    /\ strict /\ boot = "on" /\ nfree > 0
    /\ InBuckets # {}
    /\ \E a \in Slots : refcount[a] > 0
    /\ mem_freelist # NULL

\* The protocol violations of C11, on the arguments of a call.
BadNode(rr) == RRNODE(rr) = 0 \/ RRNODE(rr) > NET_MAXNODES

BadBucket(rr) == RRADDR(rr) <= 1 \/ RRADDR(rr) >= AssumedPg

\* Processor c enters mem_rrtrack / mem_rrlookup in this step.
EntersTrack(c) ==
    /\ pc[c] = "idle"
    /\ \/ pc'[c] \in {"T_scan1"}
       \/ pc'[c] = "panic" /\ panic' \in {"track_assert_pi", "track_assert_rr"}

EntersLookup(c) ==
    /\ pc[c] = "idle"
    /\ \/ pc'[c] \in {"L_scan1"}
       \/ pc'[c] = "panic" /\ panic' = "lookup_assert_rr"

\* C11 (as claimed): a mem_rrtrack given an invalid node or the descriptor
\* of frame 0, of frame 1 or of the zero page / kernel image, and a
\* mem_rrlookup given an invalid node or a page address whose bucket is
\* outside (1, mem_npage), stop the kernel at once, and no home, bucket
\* list or refcount is modified.
C11_ViolationsFatal ==
    [][\A c \in Cpus :
          (\/ EntersTrack(c) /\ (BadNode(arg_rr'[c]) \/ arg_pi'[c] \in PinnedPis)
           \/ EntersLookup(c) /\ (BadNode(arg_rr'[c]) \/ BadBucket(arg_rr'[c])))
          => /\ pc'[c] = "panic"
             /\ home' = home /\ homenext' = homenext
             /\ homelist' = homelist /\ refcount' = refcount]_vars

\* C12 (as claimed): a mem_free given a descriptor that is on the free list
\* stops the kernel; it never gets to link the descriptor a second time.
C12_DoubleFreeFatal ==
    \A c \in Cpus :
        pc[c] \in {"F_load", "F_next", "F_link"}
            => arg_pi[c] \notin Range(FreeSeq)

\* ------------------------------------------------------- trap dispatcher
\* The call f is in the log of the trap.
Has(f) == \E i \in 1 .. Len(tlog) : tlog[i] = f

\* The number of times f is in the log.
Count(f) == Cardinality({i \in 1 .. Len(tlog) : tlog[i] = f})

\* A trap has been taken and trap() is done with it.
Ended == tf # NoFrame /\ tend # ""

\* The log without console output and without the fault handler's call.
RECURSIVE Acts(_)
Acts(q) ==
    IF q = <<>> THEN <<>>
    ELSE IF Head(q) \in {"cprintf", "pmap_pagefault"} THEN Acts(Tail(q))
    ELSE <<Head(q)>> \o Acts(Tail(q))

\* The vectors the dispatcher knows: system call, timer, keyboard, serial,
\* spurious, and the vector the network device registered.
Recognized(no) ==
    \/ no \in {T_SYSCALL, T_LTIMER, T_IRQ0 + IRQ_KBD, T_IRQ0 + IRQ_SERIAL,
               T_IRQ0 + IRQ_SPURIOUS}
    \/ e100_irq # 0 /\ no = T_IRQ0 + e100_irq

\* The calls of the trap-number dispatch and of what follows it.
DispatchCalls == {"syscall", "net_tick", "lapic_eoi", "proc_yield",
                  "kbd_intr", "serial_intr", "e100_intr", "net_migrate",
                  "proc_ret", "trap_print", "panic"}

\* trap() is past the fault handler and the recovery hook.
InDispatch == tpc \in {"T_switch", "T_dev", "T_user", "T_panic"}

\* C13: a page fault is given to pmap_pagefault, once, before the recovery
\* hook is consulted and before anything else is called; a trap of any
\* other number never reaches pmap_pagefault.
C13_FaultHandlerFirst ==
    tf # NoFrame =>
        /\ (tf.trapno = T_PGFLT /\ tpc # "T_pgflt") =>
              /\ Len(tlog) >= 1 /\ tlog[1] = "pmap_pagefault"
              /\ Count("pmap_pagefault") = 1
        /\ tf.trapno # T_PGFLT => ~Has("pmap_pagefault")

\* C13 witness: a page fault the fault handler returned from has been
\* handled to its end.
C13_Witness ==
    /\ Ended /\ tf.trapno = T_PGFLT
    /\ tlog[1] = "pmap_pagefault" /\ Len(tlog) >= 2

\* C14 (as claimed): with a recovery hook installed on the processor, the
\* dispatch is never reached and every trap, whatever its number, ends
\* with the hook called.
C14_HookEveryTrap ==
    [][(tpc \notin {"run", "panic", "lost"} /\ recover[tcpu] # "NULL") =>
          /\ tpc' \notin {"T_switch", "T_dev", "T_user", "T_panic"}
          /\ tend' # "" => \E i \in 1 .. Len(tlog') : tlog'[i] = "recover"]_vars

\* C14 (amended): with a recovery hook installed, the dispatch is never
\* reached and none of its calls is made; the hook is called for every
\* trap except a page fault that pmap_pagefault resumed itself, and it is
\* given the frame and c->recoverdata (it stores the trap number there).
C14_HookBeforeDispatch ==
    [][(tpc \notin {"run", "panic", "lost"} /\ recover[tcpu] # "NULL") =>
          /\ tpc' \notin {"T_switch", "T_dev", "T_user", "T_panic"}
          /\ \A i \in 1 .. Len(tlog') : tlog'[i] \notin DispatchCalls
          /\ tend' # "" =>
                \/ tend' = "pagefault" /\ tf.trapno = T_PGFLT
                \/ /\ \E i \in 1 .. Len(tlog') : tlog'[i] = "recover"
                   /\ recoverdata[tcpu] = "args" =>
                         (args'.trapno = tf.trapno /\ tf'.eip = args.reip)]_vars

\* C14 witness: a timer interrupt taken while the hook is installed has
\* ended in the hook.
C14_Witness ==
    /\ Ended /\ tf.trapno = T_LTIMER
    /\ tlog = <<"recover", "trap_return">>
    /\ args.trapno = T_LTIMER

\* C15: a timer trap that is not taken by a recovery hook calls net_tick
\* once, then lapic_eoi once, then proc_yield if and only if cs & 3 # 0 and
\* else trap_return; it never gets past the switch.
C15_TimerTick ==
    /\ (InDispatch /\ tpc # "T_switch") => tf.trapno # T_LTIMER
    /\ (Ended /\ tf.trapno = T_LTIMER /\ ~Has("recover")) =>
          IF Cpl(tf.cs) # 0
          THEN tlog = <<"net_tick", "lapic_eoi", "proc_yield">> /\ tend = "yield"
          ELSE tlog = <<"net_tick", "lapic_eoi", "trap_return">> /\ tend = "resume"

\* C15 witness: a timer interrupt from user mode has ended in a yield.
C15_Witness ==
    /\ Ended /\ tf.trapno = T_LTIMER /\ Cpl(tf.cs) # 0 /\ tend = "yield"

\* The interrupt handler of a device vector.
Handler(no) ==
    CASE no = T_IRQ0 + IRQ_KBD -> "kbd_intr"
      [] no = T_IRQ0 + IRQ_SERIAL -> "serial_intr"
      [] OTHER -> "e100_intr"

\* C16 (as claimed): a keyboard, serial or network-device interrupt that is
\* not taken by a recovery hook calls the device's handler once, then
\* acknowledges the interrupt controller, then resumes.
C16_DeviceThenAck ==
    (/\ Ended /\ ~Has("recover")
     /\ \/ tf.trapno \in {T_IRQ0 + IRQ_KBD, T_IRQ0 + IRQ_SERIAL}
        \/ e100_irq # 0 /\ tf.trapno = T_IRQ0 + e100_irq) =>
        tlog = <<Handler(tf.trapno), "lapic_eoi", "trap_return">>

\* C17 (as claimed): a trap of a recognized vector never reaches
\* net_migrate or proc_ret.
C17_RecognizedLocal ==
    (tf # NoFrame /\ Recognized(tf.trapno)) =>
        ~Has("net_migrate") /\ ~Has("proc_ret")

\* C18: a trap from user mode that neither the fault handler, nor a hook,
\* nor the dispatch took never reaches the panic path; it ends in
\* net_migrate when the process's home node is not this node, and in
\* proc_ret otherwise, and makes no other call.
C18_UserTrapReflected ==
    /\ tpc = "T_panic" => Cpl(tf.cs) = 0
    /\ (/\ Ended /\ Cpl(tf.cs) # 0 /\ ~Recognized(tf.trapno)
        /\ ~Has("recover") /\ tend # "pagefault") =>
          IF curhome # net_node
          THEN Acts(tlog) = <<"net_migrate">> /\ tend = "migrate"
          ELSE Acts(tlog) = <<"proc_ret">> /\ tend = "parent"

\* C18 witness: a general protection fault of a process whose home is
\* another node has been handed to net_migrate.
C18_Witness ==
    /\ Ended /\ tf.trapno = T_GPFLT /\ Cpl(tf.cs) # 0
    /\ curhome # net_node /\ tend = "migrate"

\* C19: a trap from kernel mode that neither the fault handler, nor a
\* hook, nor the dispatch took prints the frame and panics "in kernel";
\* nothing else is called.
C19_KernelTrapFatal ==
    (/\ Ended /\ Cpl(tf.cs) = 0 /\ ~Recognized(tf.trapno)
     /\ ~Has("recover") /\ tend # "pagefault") =>
        /\ tend = "panic" /\ tpc = "panic"
        /\ tpanic = "unhandled trap in kernel"
        /\ Acts(tlog) = <<"trap_print", "panic">>

\* C19 witness: a divide error in the kernel has ended in the panic.
C19_Witness ==
    /\ Ended /\ tf.trapno = T_DIVIDE /\ Cpl(tf.cs) = 0
    /\ tpanic = "unhandled trap in kernel"

\* C20: in the table trap_init_idt builds, a present gate has DPL 3 if and
\* only if it is the breakpoint, overflow or system-call gate, and DPL 0
\* otherwise.
C20_GatePrivilege ==
    idtr[BootCpu] =>
        \A v \in Vectors :
            idt[v].p =>
                /\ idt[v].dpl \in {0, 3}
                /\ idt[v].dpl = 3 <=> v \in {T_BRKPT, T_OFLOW, T_SYSCALL}

\* C20 witness: the table is built; the system-call gate is open to user
\* code and the page-fault and timer gates are not.
C20_Witness ==
    /\ idtr[BootCpu]
    /\ idt[T_SYSCALL].p /\ idt[T_SYSCALL].dpl = 3
    /\ idt[T_PGFLT].p /\ idt[T_PGFLT].dpl = 0
    /\ idt[T_LTIMER].p /\ idt[T_LTIMER].dpl = 0

\* ------------------------------------------------------------- self-test
\* The trap numbers trap_check expects, in the order it provokes them.
ExpectedTraps == <<T_DIVIDE, T_BRKPT, T_OFLOW, T_BOUND, T_ILLOP, T_GPFLT,
                   T_GPFLT>>

\* The condition of the assertion that follows the k-th provoked exception.
AssertHolds == args.trapno = Provoked[chk.k].vec

\* C21: every exception trap_check provokes is taken with the recovery
\* hook trap_check_recover installed; the hook changes nothing of the trap
\* frame but eip, which becomes the address recorded in args.reip (the
\* label after the provoking instruction); the trap number it records is
\* the k-th of divide error, breakpoint, overflow, bounds, illegal opcode,
\* general protection, general protection, the seventh only at user
\* privilege; and the assertion trap_check makes on resumption holds.
C21_SelfTest ==
    [][(tpc = "T_recover" /\ tf.eip = "provoke") =>
         /\ recover[BootCpu] = "trap_check_recover"
         /\ chk.k \in 1 .. Len(ExpectedTraps)
         /\ (chk.k = Len(ExpectedTraps) => Cpl(chk.cs) # 0)
         /\ args.reip = Provoked[chk.k].reip
         /\ tf' = [tf EXCEPT !.eip = args.reip]
         /\ args'.trapno = ExpectedTraps[chk.k]
         /\ args'.reip = args.reip
         /\ tend' = "resume"
         /\ AssertHolds']_vars

\* The user-mode self-test is back from its seventh exception, the
\* privilege violation, at the label after_priv.
C21_Witness ==
    /\ chk.stage = "back" /\ chk.k = Len(ExpectedTraps) /\ Cpl(chk.cs) # 0
    /\ tend = "resume" /\ tcpu = BootCpu
    /\ tf = [trapno |-> T_GPFLT, cs |-> UserCs, eip |-> "after_priv"]
    /\ args.trapno = T_GPFLT

\* ------------------------------------------------------- tracker, again
\* The processor that takes the step: the one whose position changes.
Actor(c) == pc'[c] # pc[c]

\* C22: after initialisation the fields home, homenext and homelist of a
\* descriptor change only in a step of a processor that holds mem_freelock;
\* no step of a processor that holds only _freelist_lock changes them.
C22_TrackerLock ==
    [][(boot = "on" /\ <<home, homenext, homelist>>' # <<home, homenext, homelist>>)
         => \E c \in Cpus : Actor(c) /\ mem_freelock = c]_vars

\* ------------------------------------------------ one-time initialisation
\* C23: a step that is mem_init or trap_init of a processor other than the
\* boot processor leaves the descriptor array, the free list, mem_npage and
\* the trap vector table as they are; of the trap state that trap_init
\* changes only that processor's IDT register.
C23_InitOnce ==
    [][\A c \in Cpus \ {BootCpu} :
          /\ mem_init(c) => UNCHANGED <<mem_max, mem_npage, heap, idt>>
          /\ trap_init(c) =>
                /\ UNCHANGED <<mem_npage, heap, idt, recover, recoverdata, chk>>
                /\ idtr' = [idtr EXCEPT ![c] = TRUE]]_vars

\* A processor other than the boot processor has loaded its IDT register
\* while frames are held and a frame is tracked, and the table is the one
\* the boot processor built.
C23_Witness ==
    /\ \E c \in Cpus \ {BootCpu} : idtr[c]
    /\ idtr[BootCpu] /\ idt[T_SYSCALL].p
    /\ boot = "on" /\ Cardinality(Held) = MaxHeld
    /\ \E rr \in RRArgs : tracked[rr] \in Held

\* --------------------------------------------------------------- mem_check
\* The heap mem_init hands to mem_check: cleared and threaded.
CheckEntry == Thread(2, AssumedPg, BasememPg, Zeroed(AssumedPg), NULL)

\* C24: when mem_check returns (mem_init goes on to "on"), the free list
\* is the sequence of descriptors it was on entry, in the same order, and
\* every descriptor has the refcount it had on entry.
C24_CheckRoundTrip ==
    [][(boot = "off" /\ boot' = "on") =>
         /\ FreeSeq' = Chain(CheckEntry.fl, CheckEntry.next, AssumedPg + 1)
         /\ \A a \in Slots : refcount'[a] = CheckEntry.rc[a]]_vars

\* mem_check has returned: the list holds more than the three frames it
\* allocated, freed, allocated again and freed, and nothing else has used
\* the allocator yet.
C24_Witness ==
    /\ boot = "on" /\ panic = ""
    /\ Len(FreeSeq) > Ballpark
    /\ Held = {} /\ nfree = 0 /\ freelist_lock = 0
    /\ \A c \in Cpus : pc[c] = "idle"

\* ------------------------------------------------- one step for each trap
\* The steps of trap() after the fault handler that have acted on the
\* trap, each named by the call only it makes: the hook, the five cases of
\* the switch (the spurious case calls nothing of its own), the network
\* device, the reflection of a user trap, and the panic.
HandledBy == {f \in {"recover", "syscall", "net_tick", "kbd_intr",
                     "serial_intr", "e100_intr", "net_migrate", "proc_ret",
                     "trap_print"} : Has(f)}

\* C25: a trap that trap() is done with ended in one of the terminal
\* actions (resume, fault handler, system-call handler, yield, migration,
\* return to parent, panic) and at most one dispatch step acted on it.
C25_OneTerminal ==
    Ended =>
      /\ tend \in {"resume", "pagefault", "syscall", "yield", "migrate",
                   "parent", "panic"}
      /\ Cardinality(HandledBy) <= 1

\* ------------------------------------------------------------ memory size
\* The number of pages the NVRAM counts stand for: the start of extended
\* memory plus the extended-memory count, in bytes rounded down to a page,
\* divided by the page size.
NvramPages(nv) == (MEM_EXT + ROUNDDOWN(nv.extlo * 1024, PAGESIZE)) \div PAGESIZE

\* C26: once mem_init has run, mem_npage is the number of pages the
\* extended-memory count of the NVRAM stands for.
C26_SizedFromNvram == boot = "on" => mem_npage = NvramPages(nvram)

\* ------------------------------------------------------ bucket chains
\* No descriptor has been tracked under two references.
NoRetrack ==
    \A r1 \in RRAll : \A r2 \in RRAll :
        (tracked[r1] # NULL /\ tracked[r1] = tracked[r2]) => r1 = r2

\* C27: with mem_free given only frames that came from mem_alloc, every
\* descriptor on the chain of a bucket has a home whose address part is
\* the address of that bucket, and neither scan has failed its assertion
\* RRADDR(home) == addr; also after a tracked frame was freed and
\* allocated again.
C27_BucketConsistent ==
    (boot = "on" /\ NoRetrack) =>
      /\ \A b \in Slots : \A e \in Range(HomeChain(b)) :
            mem_phys2pi(RRADDR(home[e])) = b
      /\ panic \notin {"track_assert_addr", "lookup_assert_addr"}

\* C28: after mem_rrtrack calls that each met the documented conditions
\* (and no mem_free), every bucket chain ends in NULL: it holds no
\* descriptor twice, so a scan of it finishes.
C28_ChainsTerminate ==
    (boot = "on" /\ strict /\ nfree = 0 /\ panic = "") =>
      \A b \in Slots :
         /\ Len(HomeChain(b)) <= Cardinality(Slots)
         /\ NoRepeat(HomeChain(b))

\* --------------------------------------------- interrupts and the hook
\* The vectors of the timer and of the devices.
InterruptNos == {T_LTIMER} \cup {T_IRQ0 + i : i \in 0 .. 15}

\* C29: the step of trap() at the hook test, for a timer or device
\* interrupt taken on a processor whose recovery hook is installed: the
\* hook is called and ends the trap by resuming, no tick, device handler or
\* acknowledge is called, the trap number recorded in args is the vector,
\* and the frame resumes at the recovery address args.reip.
C29_HookConsumesInterrupt ==
    [][(/\ tpc = "T_recover"
        /\ recover[tcpu] # "NULL"
        /\ tf.trapno \in InterruptNos) =>
         /\ tlog' = tlog \o <<"recover", "trap_return">>
         /\ tend' = "resume"
         /\ args'.trapno = tf.trapno
         /\ tf'.eip = args.reip
         /\ tpanic' = tpanic]_vars

\* ----------------------------------------------------------- the table
\* C30: in the table trap_init_idt built no two installed vectors have the
\* same entry point, and the sixteen vectors T_IRQ0 .. T_IRQ0+15, the
\* system-call vector and the timer vector are installed.
C30_VectorsOneToOne ==
    idtr[BootCpu] =>
      /\ \A v \in Vectors : \A w \in Vectors :
            (idt[v].p /\ idt[w].p /\ v # w) => idt[v].off # idt[w].off
      /\ \A i \in 0 .. 15 : idt[T_IRQ0 + i].p
      /\ idt[T_SYSCALL].p /\ idt[T_LTIMER].p

\* ------------------------------------------------- the descriptor array
\* The array the global mem_pageinfo designates, and the array mem_init
\* zeroed and threaded onto the free list.
GlobalArray == {mem_pageinfo + i : i \in 0 .. (mem_npage - 1)}

BuiltArray == {LocalPi(i) : i \in 0 .. (mem_npage - 1)}

\* C31: after mem_init the global mem_pageinfo designates the array that
\* mem_init built, and every descriptor on the free list lies in
\* [&mem_pageinfo[2], &mem_pageinfo[mem_npage]).
C31_ArrayIdentity ==
    boot = "on" =>
      /\ GlobalArray = BuiltArray
      /\ \A e \in Range(FreeSeq) :
            e >= mem_pageinfo + 2 /\ e < mem_pageinfo + mem_npage

====
